---- MODULE Spec2Model ----
(***************************************************************************)
(* State-machine model of the MINKE map/strategy editor (src/src/app.rs,   *)
(* src/src/models.rs, src/src/utils.rs): terrain grids, timed buildings,   *)
(* demolish events and the placement-validity rules.                       *)
(*                                                                         *)
(* Grid coordinates are 0-based as in the source; a grid is a sequence of  *)
(* rows, so cell (r, c) is grid[r + 1][c + 1].                             *)
(*                                                                         *)
(* The widgets of the side panel that only select a value for the next     *)
(* canvas click (mode tab, selected template, layer radio, brush radio,    *)
(* radius slider) are inputs of the click actions: every value is          *)
(* selectable at any time, so the click actions range over them.           *)
(***************************************************************************)
EXTENDS Integers, Sequences, FiniteSets, TLC

VARIABLES
    grid_rows,          \* MapEditor.grid_rows
    grid_cols,          \* MapEditor.grid_cols
    current_major_z,    \* MapEditor.current_major_z
    layers_data,        \* MapEditor.layers_data : major_z -> LayerData
    placed_buildings,   \* MapEditor.placed_buildings : Seq(PlacedBuilding)
    next_uid,           \* MapEditor.next_uid
    current_wave_num,   \* MapEditor.current_wave_num
    current_is_late,    \* MapEditor.current_is_late
    upgrade_events,     \* MapEditor.upgrade_events
    demolish_events,    \* MapEditor.demolish_events : Seq(DemolishEvent)
    building_templates, \* MapEditor.building_templates : Seq(BuildingTemplate)
    selected_building_idx,       \* MapEditor.selected_building_idx (0-based)
    selected_upgrade_target_idx, \* MapEditor.selected_upgrade_target_idx (0-based)
    meta,               \* the MapEditor fields import_terrain copies from the file's meta
    ever_max,           \* history: the largest uid a placed building had in this session (-1: none yet)
    epoch_uids,         \* history: every uid a placed building had since the last import
    probe               \* inputs and results of the last evaluation of a pure function,
                        \* the outcome of the last file import, or the last exported
                        \* strategy file with the scene it was written from

vars == <<grid_rows, grid_cols, current_major_z, layers_data, placed_buildings,
          next_uid, current_wave_num, current_is_late, upgrade_events,
          demolish_events, building_templates, selected_building_idx,
          selected_upgrade_target_idx, meta, ever_max, epoch_uids, probe>>

\* the fields of MapEditor
editor == <<grid_rows, grid_cols, current_major_z, layers_data, placed_buildings,
            next_uid, current_wave_num, current_is_late, upgrade_events,
            demolish_events, building_templates, selected_building_idx,
            selected_upgrade_target_idx, meta>>

-----------------------------------------------------------------------------
(* Bounds of the model *)

\* uids a scene may have seen (imported or allocated) before the model stops
\* placing buildings into it
MaxAlloc == 2

\* the waves the cursor is moved over (the DragValue clamps to 1..=100)
CursorWaves == {1, 2}

\* shape <<rows, cols>> of the scaled-down grid the small specifications start from
SmallShape == <<1, 2>>

(* Program constants *)

\* next_uid of a fresh editor, and the unwrap_or of the import reseed
BaseUid == 1000

\* i32::MAX, the "never demolished" sentinel
I32Max == 2147483647

\* grid_rows = grid_cols = 40 of a fresh editor
DefaultGridSize == 40

\* the upper end of the radius slider
MaxBrushRadius == 10

BuildingType == {"Floor", "Wall", "Ceiling"}

-----------------------------------------------------------------------------
(* utils.rs *)

I32Min == (-I32Max) - 1

TwoPow30 == ((I32Max - 1) \div 2) + 1

\* wave * 2 overflows i32: a panic in a build with overflow checks, a
\* wrap-around in a build without
TimeOverflows(wave) == wave >= TwoPow30 \/ wave < -TwoPow30

\* wave * 2 with wrap-around, computed without leaving the 32-bit range
WrappingDouble(wave) ==
    IF wave >= TwoPow30 THEN ((wave - TwoPow30) * 2) + I32Min
    ELSE IF wave < -TwoPow30 THEN (((wave + TwoPow30) * 2) + I32Max) + 1
    ELSE wave * 2

get_time_value_NoLate(wave, late) == WrappingDouble(wave)

\* wave * 2 is even, so adding the late bit never overflows
get_time_value(wave, late) ==
    WrappingDouble(wave) + (IF late THEN 1 ELSE 0)

\* one call: with overflow checks an overflowing product panics and no
\* value is returned, without them the wrapped value is returned
TimeCall(wave, late, overflow_checks) ==
    IF overflow_checks /\ TimeOverflows(wave)
    THEN [panicked |-> TRUE, value |-> 0]
    ELSE [panicked |-> FALSE, value |-> get_time_value(wave, late)]

-----------------------------------------------------------------------------
(* models.rs *)

get_grid(layer, b_type) ==
    CASE b_type = "Floor" -> layer.floor_grid
      [] b_type = "Wall" -> layer.wall_grid
      [] b_type = "Ceiling" -> layer.ceiling_grid

\* *layer.get_grid_mut(b_type) = g
WithGrid(layer, b_type, g) ==
    CASE b_type = "Floor" -> [layer EXCEPT !.floor_grid = g]
      [] b_type = "Wall" -> [layer EXCEPT !.wall_grid = g]
      [] b_type = "Ceiling" -> [layer EXCEPT !.ceiling_grid = g]

\* vec![vec![v; cols]; rows]
FilledGrid(rows, cols, v) == [r \in 1..rows |-> [c \in 1..cols |-> v]]

\* Option<Vec<Vec<i8>>>
None == [is_some |-> FALSE]

Some(g) == [is_some |-> TRUE, value |-> g]

\* LayerData::normalize without the floor_grid.is_empty() test
normalize_Always(layer) ==
    IF layer.elevation_grid.is_some
    THEN [layer EXCEPT !.floor_grid = layer.elevation_grid.value,
                       !.elevation_grid = None]
    ELSE layer

\* LayerData::normalize: elevation_grid.take(), and the old grid becomes the
\* floor grid when the floor grid is empty
normalize(layer) ==
    IF layer.elevation_grid.is_some
    THEN IF Len(layer.floor_grid) = 0
         THEN [layer EXCEPT !.floor_grid = layer.elevation_grid.value,
                            !.elevation_grid = None]
         ELSE [layer EXCEPT !.elevation_grid = None]
    ELSE layer

\* a BuildingConfig as the catalog files hold it; the colour is a name in
\* place of the four channel bytes
Config(name, b_type, width, height, color) ==
    [name |-> name, b_type |-> b_type, width |-> width, height |-> height,
     color |-> color, icon_path |-> ""]

\* maps/buildings_config.json as the editor finds it at startup
ConfigFile ==
    << Config("Tower", "Floor", 2, 1, "RED"),
       Config("Lamp",  "Wall",  1, 1, "GREEN"),
       Config("Keep",  "Floor", 2, 2, "BLUE") >>

\* the BuildingTemplate built from one BuildingConfig (the icon is not modelled)
TemplateOf(cfg) ==
    [name |-> cfg.name, b_type |-> cfg.b_type, width |-> cfg.width,
     height |-> cfg.height, color |-> cfg.color]

TemplatesOf(configs) == [i \in 1..Len(configs) |-> TemplateOf(configs[i])]

\* the catalog new() starts with: the file's templates, or the default
\* 1x1 floor template when there are none
b_templates ==
    IF Len(TemplatesOf(ConfigFile)) = 0
    THEN << [name |-> "Default (1x1)", b_type |-> "Floor", width |-> 1,
             height |-> 1, color |-> "GRAY"] >>
    ELSE TemplatesOf(ConfigFile)

\* the fields of a fresh editor that a terrain file's meta overwrites
DefaultMeta ==
    [grid_width |-> 32, grid_height |-> 32, offset_x |-> 0, offset_y |-> 0,
     map_bottom |-> 1080, map_right |-> 1920,
     camera_speed_up |-> 1, camera_speed_down |-> 1,
     camera_speed_left |-> 1, camera_speed_right |-> 1,
     viewport_safe_areas |-> << >>, prep_actions |-> << >>]

-----------------------------------------------------------------------------
(* app.rs: queries *)

SetMin(S) == CHOOSE x \in S : \A y \in S : x <= y

SetMax(S) == CHOOSE x \in S : \A y \in S : x >= y

\* indices of the demolish events that carry uid
EventsOf(uid) == {i \in 1..Len(demolish_events) : demolish_events[i].uid = uid}

\* unwrap_or_default() in place of unwrap_or(i32::MAX)
get_building_demolish_time_Default(uid) ==
    IF EventsOf(uid) = {} THEN 0
    ELSE LET d == demolish_events[SetMin(EventsOf(uid))]
         IN  get_time_value(d.wave_num, d.is_late)

get_building_demolish_time_Last(uid) ==
    IF EventsOf(uid) = {} THEN I32Max
    ELSE LET d == demolish_events[SetMax(EventsOf(uid))]
         IN  get_time_value(d.wave_num, d.is_late)

\* iter().find(|d| d.uid == uid): the first event in list order
get_building_demolish_time(uid) ==
    IF EventsOf(uid) = {} THEN I32Max
    ELSE LET d == demolish_events[SetMin(EventsOf(uid))]
         IN  get_time_value(d.wave_num, d.is_late)

check_terrain_capability(terrain_id, b_type) ==
    IF terrain_id < 0 THEN FALSE ELSE b_type \in BuildingType

RectsOverlap_OriginOnly(start_r, start_c, w, h, b) ==
    start_c = b.grid_x /\ start_r = b.grid_y

\* the rectangle test of the collision loop
RectsOverlap(start_r, start_c, w, h, b) ==
    /\ start_c < b.grid_x + b.width
    /\ start_c + w > b.grid_x
    /\ start_r < b.grid_y + b.height
    /\ start_r + h > b.grid_y

ActiveAt_InclusiveEnd(b, t_current) ==
    /\ t_current >= get_time_value(b.wave_num, b.is_late)
    /\ t_current <= get_building_demolish_time(b.uid)

\* t_current >= t_create && t_current < t_demolish
ActiveAt(b, t_current) ==
    /\ t_current >= get_time_value(b.wave_num, b.is_late)
    /\ t_current < get_building_demolish_time(b.uid)

\* the terrain checks without the loop over the footprint
TerrainAllows_OriginOnly(start_r, start_c, w, h, b_type) ==
    /\ ~(start_r + h > grid_rows \/ start_c + w > grid_cols)
    /\ LET target_grid == get_grid(layers_data[current_major_z], b_type)
       IN  /\ Len(target_grid) > 0
           /\ ~(target_grid[start_r + 1][start_c + 1] < 0)

\* bounds check, non-empty grid, base height and uniform footprint
TerrainAllows(start_r, start_c, w, h, b_type) ==
    /\ ~(start_r + h > grid_rows \/ start_c + w > grid_cols)
    /\ LET target_grid == get_grid(layers_data[current_major_z], b_type)
       IN  /\ Len(target_grid) > 0
           /\ LET base_height == target_grid[start_r + 1][start_c + 1]
              IN  /\ ~(base_height < 0)
                  /\ \A r \in start_r..(start_r + h - 1) :
                       \A c \in start_c..(start_c + w - 1) :
                          /\ target_grid[r + 1][c + 1] = base_height
                          /\ check_terrain_capability(target_grid[r + 1][c + 1], b_type)

BuildingsAllow_AnyCategory(start_r, start_c, w, h, b_type) ==
    LET t_current == get_time_value(current_wave_num, current_is_late)
    IN  \A i \in 1..Len(placed_buildings) :
          LET b == placed_buildings[i]
          IN  \/ ~RectsOverlap(start_r, start_c, w, h, b)
              \/ ~ActiveAt(b, t_current)

\* the loop over placed_buildings: true when no iteration returns false
BuildingsAllow(start_r, start_c, w, h, b_type) ==
    LET t_current == get_time_value(current_wave_num, current_is_late)
    IN  \A i \in 1..Len(placed_buildings) :
          LET b == placed_buildings[i]
          IN  \/ b.b_type # b_type
              \/ ~RectsOverlap(start_r, start_c, w, h, b)
              \/ ~ActiveAt(b, t_current)

can_place_building(start_r, start_c, w, h, b_type) ==
    /\ TerrainAllows(start_r, start_c, w, h, b_type)
    /\ BuildingsAllow(start_r, start_c, w, h, b_type)

\* can_place_building reads target_grid outside its bounds, a panic: the
\* read of base_height, or a read of the loop that comes before any return
can_place_panics(start_r, start_c, w, h, b_type) ==
    /\ ~(start_r + h > grid_rows \/ start_c + w > grid_cols)
    /\ LET target_grid == get_grid(layers_data[current_major_z], b_type)
           Inside(r, c) == r < Len(target_grid) /\ c < Len(target_grid[r + 1])
       IN  /\ Len(target_grid) > 0
           /\ \/ ~Inside(start_r, start_c)
              \/ /\ ~(target_grid[start_r + 1][start_c + 1] < 0)
                 /\ \E r \in start_r..(start_r + h - 1), c \in start_c..(start_c + w - 1) :
                       /\ ~Inside(r, c)
                       /\ \A pr \in start_r..r, pc \in start_c..(start_c + w - 1) :
                             (pr < r \/ pc < c) =>
                                /\ Inside(pr, pc)
                                /\ target_grid[pr + 1][pc + 1]
                                     = target_grid[start_r + 1][start_c + 1]

\* the point-in-rectangle test of erase, hover and demolish targeting
Covers(b, px, py) ==
    /\ px >= b.grid_x /\ px < b.grid_x + b.width
    /\ py >= b.grid_y /\ py < b.grid_y + b.height

UidsOf(bs) == {bs[i].uid : i \in 1..Len(bs)}

-----------------------------------------------------------------------------
(* app.rs: construction *)

NewEditor(rows, cols) ==
    /\ grid_rows = rows
    /\ grid_cols = cols
    /\ current_major_z = 0
    /\ layers_data = [z \in {0} |->
                        [major_z      |-> 0,
                         name         |-> "Default Layer",
                         floor_grid   |-> FilledGrid(rows, cols, -1),
                         wall_grid    |-> FilledGrid(rows, cols, -1),
                         ceiling_grid |-> FilledGrid(rows, cols, -1),
                         elevation_grid |-> None]]
    /\ placed_buildings = << >>
    /\ next_uid = BaseUid
    /\ current_wave_num = 1
    /\ current_is_late = FALSE
    /\ upgrade_events = << >>
    /\ demolish_events = << >>
    /\ building_templates = b_templates
    /\ selected_building_idx = 0
    /\ selected_upgrade_target_idx = 0
    /\ meta = DefaultMeta
    /\ ever_max = -1
    /\ epoch_uids = {}
    /\ probe = [op |-> "none"]

\* a fresh editor whose grid the rows/cols DragValues have brought down to
\* SmallShape: resize_grids truncates the grids, which are still all -1
Init == NewEditor(SmallShape[1], SmallShape[2])

-----------------------------------------------------------------------------
(* app.rs: update() handlers *)

\* a wave change that drops the buildings whose demolition time has passed
SetWave_Prunes(w) ==
    /\ current_wave_num' = w
    /\ placed_buildings' = SelectSeq(placed_buildings, LAMBDA b :
           get_time_value(w, current_is_late) < get_building_demolish_time(b.uid))
    /\ UNCHANGED <<grid_rows, grid_cols, current_major_z, layers_data,
                   next_uid, current_is_late, upgrade_events,
                   demolish_events, ever_max, epoch_uids, probe,
                   building_templates, selected_building_idx,
                   selected_upgrade_target_idx, meta>>

\* Building-mode side panel: the wave DragValue
SetWave(w) ==
    /\ current_wave_num' = w
    /\ UNCHANGED <<grid_rows, grid_cols, current_major_z, layers_data,
                   placed_buildings, next_uid, current_is_late, upgrade_events,
                   demolish_events, ever_max, epoch_uids, probe,
                   building_templates, selected_building_idx,
                   selected_upgrade_target_idx, meta>>

\* Building-mode side panel: the "late" checkbox
SetLate(l) ==
    /\ current_is_late' = l
    /\ UNCHANGED <<grid_rows, grid_cols, current_major_z, layers_data,
                   placed_buildings, next_uid, current_wave_num, upgrade_events,
                   demolish_events, ever_max, epoch_uids, probe,
                   building_templates, selected_building_idx,
                   selected_upgrade_target_idx, meta>>

\* a resize that rebuilds every grid, empty or not
ResizedGrid_Refill(grid, rows, cols) == FilledGrid(rows, cols, -1)

\* Vec::resize of the rows and of every row; an empty grid is rebuilt whole
ResizedGrid(grid, rows, cols) ==
    IF Len(grid) = 0 THEN FilledGrid(rows, cols, -1)
    ELSE [r \in 1..rows |->
            [c \in 1..cols |->
               IF r <= Len(grid) /\ c <= Len(grid[r]) THEN grid[r][c] ELSE -1]]

\* resize_grids with the rows left at the length they have
ResizedLayer_RowsOnly(layer, rows, cols) ==
    [layer EXCEPT
       !.floor_grid = [r \in 1..rows |-> IF r <= Len(@) THEN @[r]
                                         ELSE [c \in 1..cols |-> -1]],
       !.wall_grid = ResizedGrid(@, rows, cols),
       !.ceiling_grid = ResizedGrid(@, rows, cols)]

\* the body of the loop of resize_grids: the three grids of one layer
ResizedLayer(layer, rows, cols) ==
    [layer EXCEPT !.floor_grid = ResizedGrid(@, rows, cols),
                  !.wall_grid = ResizedGrid(@, rows, cols),
                  !.ceiling_grid = ResizedGrid(@, rows, cols)]

\* resize_grids over the layers ld, for grid_rows = rows and grid_cols = cols
resize_grids(ld, rows, cols) ==
    [z \in DOMAIN ld |-> ResizedLayer(ld[z], rows, cols)]

\* Terrain-mode side panel: the rows DragValue changed to n
SetGridRows(n) ==
    /\ n # grid_rows
    /\ grid_rows' = n
    /\ layers_data' = resize_grids(layers_data, n, grid_cols)
    /\ UNCHANGED <<grid_cols, current_major_z, placed_buildings, next_uid,
                   current_wave_num, current_is_late, upgrade_events,
                   demolish_events, building_templates, selected_building_idx,
                   selected_upgrade_target_idx, meta, ever_max, epoch_uids, probe>>

\* Terrain-mode side panel: the columns DragValue changed to n
SetGridCols(n) ==
    /\ n # grid_cols
    /\ grid_cols' = n
    /\ layers_data' = resize_grids(layers_data, grid_rows, n)
    /\ UNCHANGED <<grid_rows, current_major_z, placed_buildings, next_uid,
                   current_wave_num, current_is_late, upgrade_events,
                   demolish_events, building_templates, selected_building_idx,
                   selected_upgrade_target_idx, meta, ever_max, epoch_uids, probe>>

\* the cells a stroke writes: the (2 radius + 1)^2 square clipped to the grid
PaintedGrid(grid, r, c, radius, val) ==
    [gr \in 1..Len(grid) |->
       [gc \in 1..Len(grid[gr]) |->
          IF /\ gr - 1 >= r - radius /\ gr - 1 <= r + radius
             /\ gc - 1 >= c - radius /\ gc - 1 <= c + radius
             /\ gr - 1 < grid_rows /\ gc - 1 < grid_cols
          THEN val ELSE grid[gr][gc]]]

\* Terrain mode: a pointer button held over cell (r, c) of the canvas
\* the guard of the stroke: the hovered cell is a cell of the grid
CentreInGrid_Always(r, c) == TRUE

CentreInGrid(r, c) == r >= 0 /\ c >= 0 /\ r < grid_rows /\ c < grid_cols

\* the pass that draws the canvas unwraps the current layer in every frame:
\* without that layer the frame panics
Running == current_major_z \in DOMAIN layers_data

\* layers_data after a stroke of val with the hovered cell (r, c); the
\* hovered cell may lie outside the grid, and then nothing is written
StrokedLayers(layer_type, r, c, radius, val) ==
    IF CentreInGrid(r, c)
    THEN LET layer == layers_data[current_major_z]
             grid == get_grid(layer, layer_type)
         IN  [layers_data EXCEPT ![current_major_z] =
                 WithGrid(layer, layer_type, PaintedGrid(grid, r, c, radius, val))]
    ELSE layers_data

\* Terrain mode: a pointer button held while cell (r, c) is hovered
PaintStroke(layer_type, r, c, radius, brush, primary) ==
    /\ Running
    /\ layers_data' = StrokedLayers(layer_type, r, c, radius,
                                    IF primary THEN brush ELSE -1)
    /\ UNCHANGED <<grid_rows, grid_cols, current_major_z, placed_buildings,
                   next_uid, current_wave_num, current_is_late,
                   upgrade_events, demolish_events, ever_max, epoch_uids,
                   probe, building_templates, selected_building_idx,
                   selected_upgrade_target_idx, meta>>

\* the opacity of the render pass, in percent, with the demolition time
\* itself still at full opacity
alpha_mult_InclusiveEnd(b) ==
    LET t_current == get_time_value(current_wave_num, current_is_late)
        t_create == get_time_value(b.wave_num, b.is_late)
        t_demolish == get_building_demolish_time(b.uid)
    IN  IF t_current > t_demolish THEN 5
        ELSE IF t_current < t_create THEN 30 ELSE 100

\* the render pass over placed_buildings: alpha_mult of building b, in
\* percent (0.05, 0.3 or 1.0 in the source)
alpha_mult(b) ==
    LET t_current == get_time_value(current_wave_num, current_is_late)
        t_create == get_time_value(b.wave_num, b.is_late)
        t_demolish == get_building_demolish_time(b.uid)
    IN  IF t_current >= t_demolish THEN 5
        ELSE IF t_current < t_create THEN 30 ELSE 100

\* the buildings the hover info lists for the hovered cell (cx, ry); for a
\* cell outside the grid the info reads "out of bounds" and lists none
hovered_buildings(cx, ry) ==
    IF cx >= 0 /\ ry >= 0 /\ cx < grid_cols /\ ry < grid_rows
    THEN LET t_current == get_time_value(current_wave_num, current_is_late)
         IN  SelectSeq(placed_buildings, LAMBDA b :
                 /\ cx >= b.grid_x /\ cx < b.grid_x + b.width
                 /\ ry >= b.grid_y /\ ry < b.grid_y + b.height
                 /\ t_current >= get_time_value(b.wave_num, b.is_late)
                 /\ t_current < get_building_demolish_time(b.uid))
    ELSE << >>

BumpUid_Stuck(uid) == uid

\* self.next_uid += 1
BumpUid(uid) == uid + 1

\* Building-mode side panel: the radio button of template i
SelectBuilding(i) ==
    /\ i < Len(building_templates)
    /\ selected_building_idx' = i
    /\ UNCHANGED <<grid_rows, grid_cols, current_major_z, layers_data,
                   placed_buildings, next_uid, current_wave_num, current_is_late,
                   upgrade_events, demolish_events, building_templates,
                   selected_upgrade_target_idx, meta, ever_max, epoch_uids, probe>>

\* Upgrade-mode side panel: entry i of the target ComboBox; the panel reads
\* building_templates[selected_upgrade_target_idx] before it shows the entries
SelectUpgradeTarget(i) ==
    /\ selected_upgrade_target_idx < Len(building_templates)
    /\ i < Len(building_templates)
    /\ selected_upgrade_target_idx' = i
    /\ UNCHANGED <<grid_rows, grid_cols, current_major_z, layers_data,
                   placed_buildings, next_uid, current_wave_num, current_is_late,
                   upgrade_events, demolish_events, building_templates,
                   selected_building_idx, meta, ever_max, epoch_uids, probe>>

\* a push that skips an event the list already holds
PushedUpgrade_Dedup(evs) ==
    LET ev == [building_name |-> building_templates[selected_upgrade_target_idx + 1].name,
               wave_num |-> current_wave_num, is_late |-> current_is_late]
    IN  IF \E i \in 1..Len(evs) : evs[i] = ev THEN evs ELSE Append(evs, ev)

\* upgrade_events.push(UpgradeEvent { .. }) for the selected target and the
\* cursor
PushedUpgrade(evs) ==
    Append(evs,
           [building_name |-> building_templates[selected_upgrade_target_idx + 1].name,
            wave_num |-> current_wave_num, is_late |-> current_is_late])

\* Upgrade-mode side panel: the "add upgrade" button; the panel indexes
\* building_templates with selected_upgrade_target_idx
AddUpgrade ==
    /\ selected_upgrade_target_idx < Len(building_templates)
    /\ upgrade_events' = PushedUpgrade(upgrade_events)
    /\ UNCHANGED <<grid_rows, grid_cols, current_major_z, layers_data,
                   placed_buildings, next_uid, current_wave_num, current_is_late,
                   demolish_events, building_templates, selected_building_idx,
                   selected_upgrade_target_idx, meta, ever_max, epoch_uids, probe>>

\* Upgrade-mode side panel: the [X] button of event idx
RemoveUpgrade(idx) ==
    /\ selected_upgrade_target_idx < Len(building_templates)
    /\ idx >= 0 /\ idx < Len(upgrade_events)
    /\ upgrade_events' = SubSeq(upgrade_events, 1, idx)
                            \o SubSeq(upgrade_events, idx + 2, Len(upgrade_events))
    /\ UNCHANGED <<grid_rows, grid_cols, current_major_z, layers_data,
                   placed_buildings, next_uid, current_wave_num, current_is_late,
                   demolish_events, building_templates, selected_building_idx,
                   selected_upgrade_target_idx, meta, ever_max, epoch_uids, probe>>

NewBuilding_Gray(t, r, c) ==
    [uid |-> next_uid, template_name |-> t.name, b_type |-> t.b_type,
     grid_x |-> c, grid_y |-> r, width |-> t.width, height |-> t.height,
     color |-> "GRAY",
     wave_num |-> current_wave_num, is_late |-> current_is_late]

\* the PlacedBuilding a click pushes for template t at origin (r, c)
NewBuilding(t, r, c) ==
    [uid |-> next_uid, template_name |-> t.name, b_type |-> t.b_type,
     grid_x |-> c, grid_y |-> r, width |-> t.width, height |-> t.height,
     color |-> t.color,
     wave_num |-> current_wave_num, is_late |-> current_is_late]

\* Building mode, primary click with the ghost of the selected template at
\* origin (r, c); there is no step when indexing building_templates,
\* unwrapping the current layer or a read of can_place_building panics
LeftClickBuilding(r, c) ==
    /\ selected_building_idx < Len(building_templates)
    /\ current_major_z \in DOMAIN layers_data
    /\ (r >= 0 /\ c >= 0) =>
          LET t == building_templates[selected_building_idx + 1]
          IN  ~can_place_panics(r, c, t.width, t.height, t.b_type)
    /\ LET t == building_templates[selected_building_idx + 1]
           is_valid == r >= 0 /\ c >= 0
                       /\ can_place_building(r, c, t.width, t.height, t.b_type)
       IN  IF is_valid
           THEN /\ Cardinality(epoch_uids) < MaxAlloc
                /\ placed_buildings' = Append(placed_buildings, NewBuilding(t, r, c))
                /\ next_uid' = BumpUid(next_uid)
                /\ ever_max' = IF next_uid > ever_max THEN next_uid ELSE ever_max
                /\ epoch_uids' = epoch_uids \cup {next_uid}
                /\ UNCHANGED <<grid_rows, grid_cols, current_major_z, layers_data,
                               current_wave_num, current_is_late, upgrade_events,
                               demolish_events, probe,
                               building_templates, selected_building_idx,
                               selected_upgrade_target_idx, meta>>
           ELSE UNCHANGED vars

\* an erase that spares the buildings not active at the cursor
RetainUncovered_ActiveOnly(bs, px, py) ==
    SelectSeq(bs, LAMBDA b :
        ~(Covers(b, px, py)
            /\ ActiveAt(b, get_time_value(current_wave_num, current_is_late))))

\* placed_buildings.retain(|b| !covers(px, py))
RetainUncovered(bs, px, py) == SelectSeq(bs, LAMBDA b : ~Covers(b, px, py))

RetainLive_NoCascade(evs, bs) == evs

\* demolish_events.retain(|e| bs.iter().any(|b| b.uid == e.uid))
RetainLive(evs, bs) == SelectSeq(evs, LAMBDA e : e.uid \in UidsOf(bs))

\* Building mode, secondary click on cell (px, py): erase and cascade
RightClickBuilding(px, py) ==
    /\ placed_buildings' = RetainUncovered(placed_buildings, px, py)
    /\ demolish_events' = RetainLive(demolish_events, placed_buildings')
    /\ UNCHANGED <<grid_rows, grid_cols, current_major_z, layers_data, next_uid,
                   current_wave_num, current_is_late, upgrade_events,
                   ever_max, epoch_uids, probe,
                   building_templates, selected_building_idx,
                   selected_upgrade_target_idx, meta>>

\* the targets of a click that looks at the rectangle only
DemolishTargets_AnyTime(px, py) ==
    {i \in 1..Len(placed_buildings) : Covers(placed_buildings[i], px, py)}

\* indices of the buildings that cover (px, py) and are active at the cursor
DemolishTargets(px, py) ==
    LET t_current == get_time_value(current_wave_num, current_is_late)
    IN  {i \in 1..Len(placed_buildings) :
            /\ Covers(placed_buildings[i], px, py)
            /\ ActiveAt(placed_buildings[i], t_current)}

HasDemolishEvent_Never(uid) == FALSE

\* self.demolish_events.iter().any(|e| e.uid == uid)
HasDemolishEvent(uid) ==
    \E i \in 1..Len(demolish_events) : demolish_events[i].uid = uid

\* Demolish mode, primary click on cell (px, py): iter().find(..) takes the
\* first target in list order
LeftClickDemolish(px, py) ==
    IF DemolishTargets(px, py) # {}
    THEN LET b == placed_buildings[SetMin(DemolishTargets(px, py))]
         IN  IF ~HasDemolishEvent(b.uid)
             THEN /\ demolish_events' = Append(demolish_events,
                        [uid |-> b.uid, name |-> b.template_name,
                         grid_x |-> b.grid_x, grid_y |-> b.grid_y,
                         width |-> b.width, height |-> b.height,
                         wave_num |-> current_wave_num, is_late |-> current_is_late])
                  /\ UNCHANGED <<grid_rows, grid_cols, current_major_z, layers_data,
                                 placed_buildings, next_uid, current_wave_num,
                                 current_is_late, upgrade_events, ever_max,
                                 epoch_uids, probe,
                                 building_templates, selected_building_idx,
                                 selected_upgrade_target_idx, meta>>
             ELSE UNCHANGED vars
    ELSE UNCHANGED vars

\* Vec::remove(idx), for the 0-based idx of the clicked [X] button
RemoveAt(s, idx) == SubSeq(s, 1, idx) \o SubSeq(s, idx + 2, Len(s))

\* Demolish-mode side panel: the [X] button of event idx
RemoveDemolish(idx) ==
    /\ idx >= 0 /\ idx < Len(demolish_events)
    /\ demolish_events' = RemoveAt(demolish_events, idx)
    /\ UNCHANGED <<grid_rows, grid_cols, current_major_z, layers_data,
                   placed_buildings, next_uid, current_wave_num, current_is_late,
                   upgrade_events, ever_max, epoch_uids, probe,
                   building_templates, selected_building_idx,
                   selected_upgrade_target_idx, meta>>

ImportNextUid_NoBump(bs) ==
    IF bs = << >> THEN BaseUid ELSE SetMax(UidsOf(bs))

\* placed_buildings.iter().map(|b| b.uid).max().unwrap_or(1000) + 1
ImportNextUid(bs) ==
    (IF bs = << >> THEN BaseUid ELSE SetMax(UidsOf(bs))) + 1

\* building_templates.iter().find(|t| t.name == name).map(|t| t.color)
\*     .unwrap_or(Color32::GRAY)
ColorOf(name) ==
    LET found == {i \in 1..Len(building_templates) :
                    building_templates[i].name = name}
    IN  IF found = {} THEN "GRAY" ELSE building_templates[SetMin(found)].color

\* the PlacedBuilding import builds from one BuildingExport
PlacedOf(b) ==
    [uid |-> b.uid, template_name |-> b.name, b_type |-> b.b_type,
     grid_x |-> b.grid_x, grid_y |-> b.grid_y, width |-> b.width,
     height |-> b.height, color |-> ColorOf(b.name),
     wave_num |-> b.wave_num, is_late |-> b.is_late]

\* import_buildings with a file that was read and parsed into data
ImportBuildings(data) ==
    /\ placed_buildings' = [i \in 1..Len(data.buildings) |->
                               PlacedOf(data.buildings[i])]
    /\ next_uid' = ImportNextUid(placed_buildings')
    /\ upgrade_events' = data.upgrades
    /\ demolish_events' = data.demolishes
    /\ ever_max' = SetMax({ever_max} \cup UidsOf(placed_buildings'))
    /\ epoch_uids' = UidsOf(placed_buildings')
    /\ probe' = [op |-> "import_buildings", status |-> "parsed"]
    /\ UNCHANGED <<grid_rows, grid_cols, current_major_z, layers_data,
                   current_wave_num, current_is_late,
                   building_templates, selected_building_idx,
                   selected_upgrade_target_idx, meta>>

\* an export that writes every building as made in the early half
ExportOf_Early(b) ==
    [uid |-> b.uid, name |-> b.template_name, b_type |-> b.b_type,
     grid_x |-> b.grid_x, grid_y |-> b.grid_y, width |-> b.width,
     height |-> b.height, wave_num |-> b.wave_num, is_late |-> FALSE]

\* the BuildingExport export_buildings builds from one PlacedBuilding: the
\* colour is left out
ExportOf(b) ==
    [uid |-> b.uid, name |-> b.template_name, b_type |-> b.b_type,
     grid_x |-> b.grid_x, grid_y |-> b.grid_y, width |-> b.width,
     height |-> b.height, wave_num |-> b.wave_num, is_late |-> b.is_late]

\* export_buildings: the strategy file written from the scene; probe keeps
\* the file and, as history, the scene it was written from
export_buildings ==
    /\ probe' = [op |-> "export_buildings",
                 file |-> [buildings |-> [i \in 1..Len(placed_buildings) |->
                                             ExportOf(placed_buildings[i])],
                           upgrades |-> upgrade_events,
                           demolishes |-> demolish_events],
                 scene |-> [placed_buildings |-> placed_buildings,
                            upgrade_events |-> upgrade_events,
                            demolish_events |-> demolish_events]]
    /\ UNCHANGED <<editor, ever_max, epoch_uids>>

\* the editor fields after the meta block of a parsed terrain file:
\* bottom and right are taken only when positive
MetaAfter(old, m) ==
    [grid_width |-> m.grid_pixel_width, grid_height |-> m.grid_pixel_height,
     offset_x |-> m.offset_x, offset_y |-> m.offset_y,
     map_bottom |-> IF m.bottom > 0 THEN m.bottom ELSE old.map_bottom,
     map_right |-> IF m.right > 0 THEN m.right ELSE old.map_right,
     camera_speed_up |-> m.camera_speed_up,
     camera_speed_down |-> m.camera_speed_down,
     camera_speed_left |-> m.camera_speed_left,
     camera_speed_right |-> m.camera_speed_right,
     viewport_safe_areas |-> m.viewport_safe_areas,
     prep_actions |-> m.prep_actions]

\* HashMap::insert
Inserted(ld, key, value) ==
    [z \in (DOMAIN ld) \cup {key} |-> IF z = key THEN value ELSE ld[z]]

RECURSIVE LoadLayers(_, _)
\* the loop over data.layers: each layer is normalized, a non-empty floor
\* grid sets grid_rows and grid_cols, and the layer is inserted at its major_z
LoadLayers(layers, acc) ==
    IF layers = << >> THEN acc
    ELSE LET layer == normalize(Head(layers))
             sized == Len(layer.floor_grid) > 0
         IN  LoadLayers(Tail(layers),
                 [rows |-> IF sized THEN Len(layer.floor_grid) ELSE acc.rows,
                  cols |-> IF sized THEN Len(layer.floor_grid[1]) ELSE acc.cols,
                  ld |-> Inserted(acc.ld, layer.major_z, layer)])

\* import_terrain with a file that was read and parsed into data:
\* layers_data.clear(), the loop over the layers, resize_grids
ImportTerrain(data) ==
    LET loaded == LoadLayers(data.layers,
                      [rows |-> grid_rows, cols |-> grid_cols, ld |-> << >>])
    IN  /\ meta' = MetaAfter(meta, data.meta)
        /\ grid_rows' = loaded.rows
        /\ grid_cols' = loaded.cols
        /\ layers_data' = resize_grids(loaded.ld, loaded.rows, loaded.cols)
        /\ probe' = [op |-> "import_terrain", status |-> "parsed"]
        /\ UNCHANGED <<current_major_z, placed_buildings, next_uid,
                       current_wave_num, current_is_late, upgrade_events,
                       demolish_events, building_templates,
                       selected_building_idx, selected_upgrade_target_idx,
                       ever_max, epoch_uids>>

\* import_building_configs with a file that was read and parsed into data:
\* the templates are rebuilt, the two selected indices stay as they are
ImportBuildingConfigs(data) ==
    /\ building_templates' = TemplatesOf(data)
    /\ probe' = [op |-> "import_building_configs", status |-> "parsed"]
    /\ UNCHANGED <<grid_rows, grid_cols, current_major_z, layers_data,
                   placed_buildings, next_uid, current_wave_num, current_is_late,
                   upgrade_events, demolish_events, selected_building_idx,
                   selected_upgrade_target_idx, meta, ever_max, epoch_uids>>

\* What picking a file yields: the dialog is cancelled, the file cannot be
\* read, its text does not parse, or it parses into data.
Cancelled == [status |-> "cancelled"]

Unreadable == [status |-> "unreadable"]

Unparsable == [status |-> "unparsable"]

Parsed(data) == [status |-> "parsed", data |-> data]

\* import_buildings taking a file it could not load for an empty one
import_buildings_DefaultOnError(file) ==
    IF file.status = "parsed" THEN ImportBuildings(file.data)
    ELSE ImportBuildings([buildings |-> << >>, upgrades |-> << >>,
                          demolishes |-> << >>])

\* the nested if-lets of the three imports: the body runs only for a file
\* that was picked, read and parsed; probe keeps what became of the file
import_terrain(file) ==
    IF file.status = "parsed" THEN ImportTerrain(file.data)
    ELSE /\ probe' = [op |-> "import_terrain", status |-> file.status]
         /\ UNCHANGED <<editor, ever_max, epoch_uids>>

import_buildings(file) ==
    IF file.status = "parsed" THEN ImportBuildings(file.data)
    ELSE /\ probe' = [op |-> "import_buildings", status |-> file.status]
         /\ UNCHANGED <<editor, ever_max, epoch_uids>>

import_building_configs(file) ==
    IF file.status = "parsed" THEN ImportBuildingConfigs(file.data)
    ELSE /\ probe' = [op |-> "import_building_configs", status |-> file.status]
         /\ UNCHANGED <<editor, ever_max, epoch_uids>>

-----------------------------------------------------------------------------
(* main.rs: the older single-file snapshot. Its layers_data maps a major_z
   to one grid, held here in floor_grid, and its buildings have no category;
   get_time_value, get_building_demolish_time, the strokes, the cursor
   widgets and the Demolish-mode click read as in app.rs. *)

\* can_place_building of main.rs without its loop over the buildings
main_can_place_building_TerrainOnly(start_r, start_c, w, h) ==
    /\ ~(start_r + h > grid_rows \/ start_c + w > grid_cols)
    /\ LET current_grid == layers_data[current_major_z].floor_grid
           base_height == current_grid[start_r + 1][start_c + 1]
       IN  /\ ~(base_height < 0)
           /\ \A r \in start_r..(start_r + h - 1) :
                \A c \in start_c..(start_c + w - 1) :
                   current_grid[r + 1][c + 1] = base_height

\* can_place_building of main.rs
main_can_place_building(start_r, start_c, w, h) ==
    /\ ~(start_r + h > grid_rows \/ start_c + w > grid_cols)
    /\ LET current_grid == layers_data[current_major_z].floor_grid
           base_height == current_grid[start_r + 1][start_c + 1]
       IN  /\ ~(base_height < 0)
           /\ \A r \in start_r..(start_r + h - 1) :
                \A c \in start_c..(start_c + w - 1) :
                   current_grid[r + 1][c + 1] = base_height
    /\ LET t_current == get_time_value(current_wave_num, current_is_late)
       IN  \A i \in 1..Len(placed_buildings) :
             LET b == placed_buildings[i]
                 t_create == get_time_value(b.wave_num, b.is_late)
                 t_demolish == get_building_demolish_time(b.uid)
             IN  ~(/\ start_c < b.grid_x + b.width /\ start_c + w > b.grid_x
                   /\ start_r < b.grid_y + b.height /\ start_r + h > b.grid_y
                   /\ t_current >= t_create /\ t_current < t_demolish)

\* main.rs, Building mode, primary click with the ghost at origin (r, c)
main_LeftClickBuilding(r, c) ==
    /\ selected_building_idx < Len(building_templates)
    /\ current_major_z \in DOMAIN layers_data
    /\ LET t == building_templates[selected_building_idx + 1]
           is_valid == r >= 0 /\ c >= 0
                       /\ main_can_place_building(r, c, t.width, t.height)
       IN  IF is_valid
           THEN /\ Cardinality(epoch_uids) < MaxAlloc
                /\ placed_buildings' = Append(placed_buildings,
                      [uid |-> next_uid, template_name |-> t.name,
                       grid_x |-> c, grid_y |-> r, width |-> t.width,
                       height |-> t.height, color |-> t.color,
                       wave_num |-> current_wave_num, is_late |-> current_is_late])
                /\ next_uid' = next_uid + 1
                /\ ever_max' = IF next_uid > ever_max THEN next_uid ELSE ever_max
                /\ epoch_uids' = epoch_uids \cup {next_uid}
                /\ UNCHANGED <<grid_rows, grid_cols, current_major_z, layers_data,
                               current_wave_num, current_is_late, upgrade_events,
                               demolish_events, probe,
                               building_templates, selected_building_idx,
                               selected_upgrade_target_idx, meta>>
           ELSE UNCHANGED vars

\* main.rs: demolish_events.retain(|e| !bs.iter().any(|b| b.uid == e.uid))
main_RetainEvents(evs, bs) == SelectSeq(evs, LAMBDA e : ~(e.uid \in UidsOf(bs)))

\* main.rs, Building mode, secondary click on cell (pick_c, pick_r)
main_RightClickBuilding(pick_c, pick_r) ==
    /\ selected_building_idx < Len(building_templates)
    /\ placed_buildings' = RetainUncovered(placed_buildings, pick_c, pick_r)
    /\ demolish_events' = main_RetainEvents(demolish_events, placed_buildings')
    /\ UNCHANGED <<grid_rows, grid_cols, current_major_z, layers_data, next_uid,
                   current_wave_num, current_is_late, upgrade_events,
                   ever_max, epoch_uids, probe,
                   building_templates, selected_building_idx,
                   selected_upgrade_target_idx, meta>>

-----------------------------------------------------------------------------

(* The editor without imports, on the small grid *)

\* brush values the small specifications paint with
SmallBrushes == {0}

\* layers the small specifications paint
SmallLayers == {"Floor", "Wall"}

\* templates the small specifications select (Keep does not fit the small grid)
SmallTemplates == {0, 1}

SelectStep == \E i \in SmallTemplates : SelectBuilding(i)

\* the cursor moved between the early and the late half of its wave
LateStep == \E l \in BOOLEAN : SetLate(l)

\* on the small grid a stroke of the largest radius covers the grid
SmallPaintStep ==
    \E lt \in SmallLayers, b \in SmallBrushes :
        PaintStroke(lt, 0, 0, MaxBrushRadius, b, TRUE)

\* placement clicks fall on the first column or one column past the grid
PlaceStep ==
    \E r \in 0..(grid_rows - 1), c \in {0, grid_cols} :
        LeftClickBuilding(r, c)

EraseStep ==
    \E px \in 0..(grid_cols - 1), py \in 0..(grid_rows - 1) :
        RightClickBuilding(px, py)

DemolishStep ==
    \E px \in 0..(grid_cols - 1), py \in 0..(grid_rows - 1) :
        LeftClickDemolish(px, py)

RemoveDemolishStep ==
    \E idx \in 0..(Len(demolish_events) - 1) : RemoveDemolish(idx)

Next ==
    \/ LateStep
    \/ SelectStep
    \/ SmallPaintStep
    \/ PlaceStep
    \/ EraseStep
    \/ DemolishStep
    \/ RemoveDemolishStep

Spec == Init /\ [][Next]_vars

-----------------------------------------------------------------------------
(* The editor with strategy imports, on the small grid *)

\* a BuildingExport record of a strategy file
Building(uid, name, b_type, x, y, w, h, wave, late) ==
    [uid |-> uid, name |-> name, b_type |-> b_type,
     grid_x |-> x, grid_y |-> y, width |-> w, height |-> h,
     wave_num |-> wave, is_late |-> late]

Demolish(uid, name, x, y, w, h, wave, late) ==
    [uid |-> uid, name |-> name, grid_x |-> x, grid_y |-> y,
     width |-> w, height |-> h, wave_num |-> wave, is_late |-> late]

\* one building with a low uid and two demolish events for it, the later first
FileTwoEvents ==
    [buildings  |-> << Building(3, "Tower", "Floor", 0, 0, 2, 1, 1, FALSE) >>,
     upgrades   |-> << >>,
     demolishes |-> << Demolish(3, "Tower", 0, 0, 2, 1, 2, FALSE),
                       Demolish(3, "Tower", 0, 0, 2, 1, 1, TRUE) >>]

\* no building, and a demolish event for a uid no building has
FileNoBuildings ==
    [buildings  |-> << >>,
     upgrades   |-> << [building_name |-> "Tower", wave_num |-> 1, is_late |-> FALSE] >>,
     demolishes |-> << Demolish(7, "Lamp", 1, 0, 1, 1, 1, TRUE) >>]

\* two buildings that carry the same uid
FileSameUid ==
    [buildings  |-> << Building(5, "Lamp", "Wall", 0, 0, 1, 1, 1, FALSE),
                       Building(5, "Lamp", "Wall", 1, 0, 1, 1, 1, FALSE) >>,
     upgrades   |-> << >>,
     demolishes |-> << Demolish(5, "Lamp", 0, 0, 1, 1, 2, TRUE) >>]

StrategyFiles == {FileTwoEvents, FileNoBuildings, FileSameUid}

ImportStep == \E data \in StrategyFiles : ImportBuildings(data)

\* the cursor moved by whole waves only
WaveStep == \E w \in CursorWaves : SetWave(w)

NextImport ==
    \/ WaveStep
    \/ SelectStep
    \/ SmallPaintStep
    \/ PlaceStep
    \/ EraseStep
    \/ DemolishStep
    \/ RemoveDemolishStep
    \/ ImportStep

SpecImport == Init /\ [][NextImport]_vars

-----------------------------------------------------------------------------
(* get_time_value on pairs of arguments, the ends of the i32 range included *)

ProbeWaves == {0, 1, 2, TwoPow30 - 1, TwoPow30, I32Min}

\* two calls of get_time_value in one build of the program
ProbeTime(wave_a, late_a, wave_b, late_b, overflow_checks) ==
    /\ probe' = [op |-> "get_time_value",
                 wave_a |-> wave_a, late_a |-> late_a,
                 wave_b |-> wave_b, late_b |-> late_b,
                 overflow_checks |-> overflow_checks,
                 out_a |-> TimeCall(wave_a, late_a, overflow_checks),
                 out_b |-> TimeCall(wave_b, late_b, overflow_checks)]
    /\ UNCHANGED <<grid_rows, grid_cols, current_major_z, layers_data,
                   placed_buildings, next_uid, current_wave_num, current_is_late,
                   upgrade_events, demolish_events, ever_max, epoch_uids,
                   building_templates, selected_building_idx,
                   selected_upgrade_target_idx, meta>>

NextTime ==
    \E wave_a, wave_b \in ProbeWaves, late_a, late_b, overflow_checks \in BOOLEAN :
        ProbeTime(wave_a, late_a, wave_b, late_b, overflow_checks)

SpecTime == Init /\ [][NextTime]_vars

-----------------------------------------------------------------------------
(* The editor on the grid of a fresh start, around cell (10, 10) *)

InitDefault == NewEditor(DefaultGridSize, DefaultGridSize)

\* the stroke centre, the two click cells and the brush radius of the scene
ScenarioCentre == <<10, 10>>

ScenarioOrigins == {<<9, 9>>, <<10, 10>>}

ScenarioRadius == {2}

\* the index of Keep, the 2 x 2 Floor template
ScenarioTemplates == {2}

ScenarioSelectStep == \E i \in ScenarioTemplates : SelectBuilding(i)

ScenarioPaintStep ==
    \E radius \in ScenarioRadius, primary \in BOOLEAN :
        PaintStroke("Floor", ScenarioCentre[1], ScenarioCentre[2], radius, 0, primary)

ScenarioPlaceStep ==
    \E o \in ScenarioOrigins : LeftClickBuilding(o[1], o[2])

ScenarioEraseStep ==
    \E o \in ScenarioOrigins : RightClickBuilding(o[2], o[1])

ScenarioDemolishStep ==
    \E o \in ScenarioOrigins : LeftClickDemolish(o[2], o[1])

NextScenario ==
    \/ WaveStep
    \/ ScenarioSelectStep
    \/ ScenarioPaintStep
    \/ ScenarioPlaceStep
    \/ ScenarioEraseStep
    \/ ScenarioDemolishStep
    \/ RemoveDemolishStep

SpecScenario == InitDefault /\ [][NextScenario]_vars

-----------------------------------------------------------------------------
(* The terrain of the editor: strokes, grid size changes and terrain imports *)

\* a LayerData record as serde builds it from a terrain file
Layer(major_z, floor, wall, ceiling, elevation) ==
    [major_z |-> major_z, name |-> "", floor_grid |-> floor, wall_grid |-> wall,
     ceiling_grid |-> ceiling, elevation_grid |-> elevation]

\* a meta block whose bottom is 0 and so is not taken over
FileMeta ==
    [grid_pixel_width |-> 16, grid_pixel_height |-> 16, offset_x |-> 4,
     offset_y |-> 4, bottom |-> 0, right |-> 800,
     camera_speed_up |-> 2, camera_speed_down |-> 2, camera_speed_left |-> 2,
     camera_speed_right |-> 2, viewport_safe_areas |-> << >>,
     prep_actions |-> <<"prep">>]

\* one layer of the old format: only elevation_grid
TerrainLegacy ==
    [meta |-> FileMeta,
     layers |-> << Layer(0, << >>, << >>, << >>, Some(<< <<0, 1>>, <<1, 0>> >>)) >>]

\* rows of different lengths, and a wall grid smaller than the floor grid
TerrainRagged ==
    [meta |-> FileMeta,
     layers |-> << Layer(0, << <<0, 1>>, <<2>> >>, << <<3>> >>, << >>, None) >>]

\* two layers whose floor grids differ in size
TerrainTwoSizes ==
    [meta |-> FileMeta,
     layers |-> << Layer(0, << <<1>> >>, << >>, << >>, None),
                   Layer(1, << <<2>>, <<2>> >>, << >>, << >>, None) >>]

\* a floor grid together with an old elevation_grid
TerrainBoth ==
    [meta |-> FileMeta,
     layers |-> << Layer(0, << <<2, 2>> >>, << >>, << >>, Some(<< <<0>> >>)) >>]

TerrainNoLayers == [meta |-> FileMeta, layers |-> << >>]

\* a single layer, at a major_z that is not the current one
TerrainOtherZ ==
    [meta |-> FileMeta,
     layers |-> << Layer(1, << <<0>> >>, << >>, << >>, None) >>]

TerrainFiles ==
    {TerrainLegacy, TerrainRagged, TerrainTwoSizes, TerrainBoth,
     TerrainNoLayers, TerrainOtherZ}

TerrainOutcomes ==
    {Cancelled, Unreadable, Unparsable} \cup {Parsed(data) : data \in TerrainFiles}

\* the values the rows and columns DragValues are dragged to
GridSizes == 0..2

\* radii and layers of the strokes of this specification
TerrainRadii == {0, 1}

TerrainLayers == {"Floor", "Wall"}

TerrainImportStep == Running /\ \E file \in TerrainOutcomes : import_terrain(file)

\* the imports of the terrain files that load
TerrainLoadStep == Running /\ \E data \in TerrainFiles : ImportTerrain(data)

GridSizeStep ==
    /\ Running
    /\ \/ \E n \in GridSizes : SetGridRows(n)
       \/ \E n \in GridSizes : SetGridCols(n)

\* the brush of the strokes of this specification
TerrainBrushes == {0}

\* strokes over every cell of the grid and over the cells next to it
TerrainPaintStep ==
    \E lt \in TerrainLayers, r \in (-1)..grid_rows, c \in (-1)..grid_cols,
       radius \in TerrainRadii, brush \in TerrainBrushes, primary \in BOOLEAN :
        PaintStroke(lt, r, c, radius, brush, primary)

\* a strategy file is loaded, so that strokes meet buildings and events
SceneLoadStep == Running /\ ImportBuildings(FileTwoEvents)

NextTerrain ==
    \/ SceneLoadStep
    \/ TerrainLoadStep
    \/ GridSizeStep
    \/ TerrainPaintStep

SpecTerrain == Init /\ [][NextTerrain]_vars

-----------------------------------------------------------------------------
(* The editor with catalog imports, on the small grid *)

CatalogEmpty == << >>

\* a catalog shorter than the one the editor started with
CatalogShort == << Config("Gate", "Floor", 1, 1, "WHITE") >>

CatalogFiles == {CatalogEmpty, CatalogShort, ConfigFile}

CatalogOutcomes ==
    {Cancelled, Unreadable, Unparsable} \cup {Parsed(data) : data \in CatalogFiles}

CatalogImportStep ==
    Running /\ \E file \in CatalogOutcomes : import_building_configs(file)

\* the imports of the catalog files that load
CatalogLoadStep == \E data \in CatalogFiles : ImportBuildingConfigs(data)

\* every entry the template radio buttons show
CatalogSelectStep ==
    \E i \in 0..(Len(building_templates) - 1) : SelectBuilding(i)

CursorStep ==
    \/ \E w \in CursorWaves : SetWave(w)
    \/ \E l \in BOOLEAN : SetLate(l)

\* clicks with the ghost's origin on every cell of the grid and on the
\* cells next to it
ClickCells == {<<r, c>> : r \in (-1)..grid_rows, c \in (-1)..grid_cols}

CatalogPlaceStep == \E cell \in ClickCells : LeftClickBuilding(cell[1], cell[2])

NextCatalog ==
    \/ CursorStep
    \/ CatalogSelectStep
    \/ CatalogLoadStep
    \/ SmallPaintStep
    \/ CatalogPlaceStep

SpecCatalog == Init /\ [][NextCatalog]_vars

-----------------------------------------------------------------------------
(* The editor with the three file imports, on the small grid *)

StrategyOutcomes ==
    {Cancelled, Unreadable, Unparsable} \cup {Parsed(data) : data \in StrategyFiles}

StrategyImportStep ==
    Running /\ \E file \in StrategyOutcomes : import_buildings(file)

\* the last entry the upgrade target ComboBox shows
UpgradeSelectStep ==
    \E i \in {Len(building_templates) - 1} : SelectUpgradeTarget(i)

NextFiles ==
    \/ UpgradeSelectStep
    \/ TerrainImportStep
    \/ CatalogImportStep
    \/ StrategyImportStep
    \/ SmallPaintStep
    \/ PlaceStep

SpecFiles == Init /\ [][NextFiles]_vars

-----------------------------------------------------------------------------
(* LayerData::normalize on layers as a terrain file may hold them *)

ProbeGrids == {<< >>, << <<0>> >>, << <<1, 2>> >>, << <<0>>, <<3>> >>}

ProbeLegacyGrids == {<< >>, << <<2>> >>, << <<0, 1>>, <<1, 0>> >>}

ProbeLayers ==
    {Layer(0, floor, wall, ceiling, elevation) :
        floor \in ProbeGrids, wall \in ProbeLegacyGrids, ceiling \in ProbeLegacyGrids,
        elevation \in {None} \cup {Some(g) : g \in ProbeLegacyGrids}}

\* normalize called on layer, and called again on its result
ProbeNormalize(layer) ==
    /\ probe' = [op |-> "normalize", layer |-> layer, out |-> normalize(layer),
                 again |-> normalize(normalize(layer))]
    /\ UNCHANGED <<editor, ever_max, epoch_uids>>

NextNormalize == \E layer \in ProbeLayers : ProbeNormalize(layer)

SpecNormalize == Init /\ [][NextNormalize]_vars

-----------------------------------------------------------------------------
(* The terrain under the editor's own operations: every brush, both buttons,
   grid size changes *)

Brushes_WithFour == {-1, 0, 1, 2, 3, 4}

\* the values of the brush radio buttons
Brushes == {-1, 0, 1, 2, 3}

\* the layers the strokes of this specification paint
BrushLayers == {"Floor", "Ceiling"}

BrushRadii == {0, 1}

\* the values the rows and the columns DragValue are dragged to
BrushRows == {0, 1}

BrushCols == {1, 2, 3}

BrushPaintStep ==
    \E lt \in BrushLayers, r \in 0..(grid_rows - 1), c \in 0..(grid_cols - 1),
       radius \in BrushRadii, brush \in Brushes, primary \in BOOLEAN :
        PaintStroke(lt, r, c, radius, brush, primary)

BrushRowsStep == \E n \in BrushRows : SetGridRows(n)

BrushColsStep == \E n \in BrushCols : SetGridCols(n)

NextBrush ==
    \/ BrushPaintStep
    \/ BrushRowsStep
    \/ BrushColsStep

SpecBrush == Init /\ [][NextBrush]_vars

-----------------------------------------------------------------------------
(* The editor without imports, with the columns DragValue: buildings may
   come to lie outside the grid *)

\* the column counts the grid is dragged to
ActivityCols == {1, 2}

ActivityColsStep == Running /\ \E n \in ActivityCols : SetGridCols(n)

\* Demolish-mode clicks on the cells of the grid as it was at the start
ActivityDemolishStep ==
    \E px \in 0..(SmallShape[2] - 1), py \in 0..(SmallShape[1] - 1) :
        LeftClickDemolish(px, py)

NextActivity ==
    \/ LateStep
    \/ SelectStep
    \/ SmallPaintStep
    \/ PlaceStep
    \/ ActivityDemolishStep
    \/ ActivityColsStep

SpecActivity == Init /\ [][NextActivity]_vars

-----------------------------------------------------------------------------
(* The editor without imports, with the cursor moved over waves and halves *)

NextCursor ==
    \/ CursorStep
    \/ SelectStep
    \/ SmallPaintStep
    \/ PlaceStep
    \/ DemolishStep

SpecCursor == Init /\ [][NextCursor]_vars

-----------------------------------------------------------------------------
(* The upgrade list beside a loaded scene, on the small grid *)

\* upgrade events the list holds before the model stops adding to it
MaxUpgrades == 2

UpgradeTargetStep ==
    \E i \in 0..(Len(building_templates) - 1) : SelectUpgradeTarget(i)

AddUpgradeStep == Len(upgrade_events) < MaxUpgrades /\ AddUpgrade

RemoveUpgradeStep ==
    \E idx \in 0..(Len(upgrade_events) - 1) : RemoveUpgrade(idx)

NextUpgrade ==
    \/ LateStep
    \/ SmallPaintStep
    \/ SceneLoadStep
    \/ UpgradeTargetStep
    \/ AddUpgradeStep
    \/ RemoveUpgradeStep

SpecUpgrade == Init /\ [][NextUpgrade]_vars

-----------------------------------------------------------------------------
(* The older snapshot (main.rs) without imports, on the small grid *)

MainPaintStep == PaintStroke("Floor", 0, 0, MaxBrushRadius, 0, TRUE)

MainPlaceStep ==
    \E r \in 0..(grid_rows - 1), c \in 0..(grid_cols - 1) :
        main_LeftClickBuilding(r, c)

MainEraseStep ==
    \E px \in 0..(grid_cols - 1), py \in 0..(grid_rows - 1) :
        main_RightClickBuilding(px, py)

NextMain ==
    \/ LateStep
    \/ SelectStep
    \/ MainPaintStep
    \/ MainPlaceStep
    \/ MainEraseStep
    \/ DemolishStep

SpecMain == Init /\ [][NextMain]_vars

-----------------------------------------------------------------------------
(* The Building-mode ghost with catalogs whose templates have a width or a
   height of 0, on the small grid *)

\* a catalog file with a template of height 0 and a template of width 0
CatalogFlat ==
    << Config("Strip", "Floor", 2, 0, "WHITE"),
       Config("Post",  "Wall",  0, 1, "WHITE") >>

\* origins of the ghost: the cells of the grid and the cells past its last
\* row and column
GhostOrigins == (0..(grid_rows + 1)) \X (0..(grid_cols + 1))

GhostLoadStep == \E data \in {ConfigFile, CatalogFlat} : ImportBuildingConfigs(data)

GhostPlaceStep == \E o \in GhostOrigins : LeftClickBuilding(o[1], o[2])

NextGhost ==
    \/ LateStep
    \/ CatalogSelectStep
    \/ GhostLoadStep
    \/ SmallPaintStep
    \/ GhostPlaceStep

SpecGhost == Init /\ [][NextGhost]_vars

-----------------------------------------------------------------------------
(* The editor with the strategy export and the import of the exported file,
   on the small grid *)

ExportStep == export_buildings

\* the file picked for the import is the one the last export wrote; the
\* model stops importing once next_uid has left the uids of the first scene
ReimportStep ==
    /\ probe.op = "export_buildings"
    /\ next_uid <= BaseUid + MaxAlloc
    /\ import_buildings(Parsed(probe.file))

NextExport ==
    \/ LateStep
    \/ MainPaintStep
    \/ PlaceStep
    \/ EraseStep
    \/ DemolishStep
    \/ AddUpgradeStep
    \/ ExportStep
    \/ ReimportStep

SpecExport == Init /\ [][NextExport]_vars

-----------------------------------------------------------------------------
(* can_place_building of both snapshots on scenes of Floor buildings *)

\* a PlacedBuilding of category Floor
FloorBuilding(uid, x, y, w, h, wave, late) ==
    [uid |-> uid, template_name |-> "Tower", b_type |-> "Floor",
     grid_x |-> x, grid_y |-> y, width |-> w, height |-> h, color |-> "RED",
     wave_num |-> wave, is_late |-> late]

\* buildings on and partly off a 2 x 2 grid, two of them with the same uid
PlacesBuildings ==
    { FloorBuilding(1, 0, 0, 2, 1, 1, FALSE),
      FloorBuilding(1, 1, 1, 1, 1, 1, TRUE),
      FloorBuilding(2, 0, 1, 1, 1, 2, FALSE),
      FloorBuilding(3, 1, 0, 2, 2, 1, FALSE) }

\* demolish events for them, one before the creation of its building
PlacesEvents ==
    { Demolish(1, "Tower", 0, 0, 2, 1, 2, FALSE),
      Demolish(1, "Tower", 0, 0, 2, 1, 1, TRUE),
      Demolish(2, "Tower", 0, 1, 1, 1, 1, FALSE) }

\* the sequences of at most two elements of S
UpToTwo(S) == {<< >>} \cup {<<a>> : a \in S} \cup {<<a, b>> : a \in S, b \in S}

\* floor grids of 2 x 2 cells: flat, stepped and with an obstacle
PlacesGrids ==
    { << <<0, 0>>, <<0, 0>> >>, << <<0, 1>>, <<0, 1>> >>, << <<1, 1>>, <<-1, 1>> >> }

InitPlaces ==
    /\ grid_rows = 2
    /\ grid_cols = 2
    /\ current_major_z = 0
    /\ layers_data \in
          { [z \in {0} |-> [major_z |-> 0, name |-> "Default Layer",
                            floor_grid |-> g,
                            wall_grid |-> FilledGrid(2, 2, -1),
                            ceiling_grid |-> FilledGrid(2, 2, -1),
                            elevation_grid |-> None]] : g \in PlacesGrids }
    /\ placed_buildings \in UpToTwo(PlacesBuildings)
    /\ next_uid = BaseUid
    /\ current_wave_num \in CursorWaves
    /\ current_is_late \in BOOLEAN
    /\ upgrade_events = << >>
    /\ demolish_events \in UpToTwo(PlacesEvents)
    /\ building_templates = b_templates
    /\ selected_building_idx = 0
    /\ selected_upgrade_target_idx = 0
    /\ meta = DefaultMeta
    /\ ever_max = -1
    /\ epoch_uids = {}
    /\ probe = [op |-> "none"]

\* one call of each can_place_building on the scene
ProbePlace(start_r, start_c, w, h) ==
    /\ probe' = [op |-> "can_place_building",
                 start_r |-> start_r, start_c |-> start_c, w |-> w, h |-> h,
                 main |-> main_can_place_building(start_r, start_c, w, h),
                 app |-> can_place_building(start_r, start_c, w, h, "Floor")]
    /\ UNCHANGED <<editor, ever_max, epoch_uids>>

NextPlaces ==
    \E start_r \in 0..grid_rows, start_c \in 0..grid_cols, w \in 1..2, h \in 1..2 :
        ProbePlace(start_r, start_c, w, h)

SpecPlaces == InitPlaces /\ [][NextPlaces]_vars

-----------------------------------------------------------------------------
(* Vocabulary of the properties *)

\* the cells of a w x h rectangle with origin column x and row y
RectCells(x, y, w, h) == (x..(x + w - 1)) \X (y..(y + h - 1))

CellsOf(b) == RectCells(b.grid_x, b.grid_y, b.width, b.height)

CreateTime(b) == get_time_value(b.wave_num, b.is_late)

EventTime(e) == get_time_value(e.wave_num, e.is_late)

CursorTime == get_time_value(current_wave_num, current_is_late)

\* the times the cursor can take, and one step around them
AllTimes == 0..((2 * SetMax(CursorWaves)) + 2)

Buildings == {placed_buildings[i] : i \in 1..Len(placed_buildings)}

Events == {demolish_events[i] : i \in 1..Len(demolish_events)}

DistinctUids(bs) == \A i, j \in 1..Len(bs) : i # j => bs[i].uid # bs[j].uid

\* sub is seq with exactly the entries at the indices keep, in their order
IsSubSeqAt(sub, seq, keep) ==
    /\ Len(sub) = Cardinality(keep)
    /\ \A i \in keep : sub[Cardinality({j \in keep : j <= i})] = seq[i]

SmallCells == (0..(SmallShape[2] - 1)) \X (0..(SmallShape[1] - 1))

-----------------------------------------------------------------------------
(* C1: with the editor's own operations only, no two placed buildings of the
   same category whose footprints intersect are ever both active at one
   time t, where active means CreateTime <= t < demolition time. *)
C1_NoSameCategoryTemporalOverlap ==
    \A i, j \in 1..Len(placed_buildings) :
        LET a == placed_buildings[i]
            b == placed_buildings[j]
        IN  (i < j /\ a.b_type = b.b_type /\ CellsOf(a) \cap CellsOf(b) # {})
            => \A t \in AllTimes : ~(ActiveAt(a, t) /\ ActiveAt(b, t))

-----------------------------------------------------------------------------
(* C2 as stated: after a right-click erase in Building mode no demolish
   event remains that carries the uid of a building just removed. *)
C2_NoEventOfRemovedBuilding ==
    [][\A cell \in SmallCells :
          RightClickBuilding(cell[1], cell[2]) =>
            \A b \in Buildings :
                Covers(b, cell[1], cell[2]) => ~\E e \in Events' : e.uid = b.uid
      ]_vars

(* C2 amended: after a right-click erase in Building mode no demolish event
   is left whose uid no placed building carries; if the uids of the placed
   buildings were pairwise distinct before the erase, none is left for a
   building just removed; and the events whose uid a surviving building
   carries are kept unchanged and in their original order. *)
C2_EraseCascades ==
    [][\A cell \in SmallCells :
          RightClickBuilding(cell[1], cell[2]) =>
            /\ \A e \in Events' : e.uid \in UidsOf(placed_buildings')
            /\ DistinctUids(placed_buildings) =>
                 \A b \in Buildings :
                    Covers(b, cell[1], cell[2]) => ~\E e \in Events' : e.uid = b.uid
            /\ IsSubSeqAt(demolish_events', demolish_events,
                          {i \in 1..Len(demolish_events) :
                              \E b \in Buildings :
                                 /\ ~Covers(b, cell[1], cell[2])
                                 /\ b.uid = demolish_events[i].uid})
      ]_vars

\* the first building placed was erased; the second and its event remain
C2_Witness ==
    /\ BaseUid \in epoch_uids
    /\ UidsOf(placed_buildings) = {BaseUid + 1}
    /\ Len(demolish_events) = 1
    /\ demolish_events[1].uid = BaseUid + 1

-----------------------------------------------------------------------------
(* C3 as stated: every newly allocated uid is strictly greater than every
   uid any placed building had at an earlier point of the session, erased or
   replaced by an import included. *)
C3_NeverReusedInSession ==
    [][\A cell \in SmallCells :
          (LeftClickBuilding(cell[2], cell[1])
             /\ Len(placed_buildings') = Len(placed_buildings) + 1)
          => placed_buildings'[Len(placed_buildings')].uid > ever_max
      ]_vars

(* C3 amended: every newly allocated uid is strictly greater than every uid
   that a placed building had at any point since the most recent successful
   strategy import (since the start of the session if there was none),
   erased buildings included. *)
C3_NeverReusedSinceImport ==
    [][\A cell \in SmallCells :
          (LeftClickBuilding(cell[2], cell[1])
             /\ Len(placed_buildings') = Len(placed_buildings) + 1)
          => \A u \in epoch_uids : placed_buildings'[Len(placed_buildings')].uid > u
      ]_vars

\* after an import and an erase, a placement took a uid above the erased one
C3_Witness ==
    /\ ever_max >= BaseUid
    /\ \E u \in epoch_uids : u < BaseUid /\ u \notin UidsOf(placed_buildings)
    /\ \E b \in Buildings : b.uid < BaseUid /\ \A u \in epoch_uids : u <= b.uid

-----------------------------------------------------------------------------
(* C4: at every placement the allocated uid is strictly greater than the uid
   of every building currently placed; placements and erases keep the uids
   of the placed buildings pairwise distinct, an import of a file with
   pairwise distinct uids yields pairwise distinct uids, and after an import
   of at least one building next_uid = max(imported uids) + 1. *)
C4_AllocatedAboveCurrent ==
    [][/\ \A cell \in SmallCells :
            (LeftClickBuilding(cell[2], cell[1])
               /\ Len(placed_buildings') = Len(placed_buildings) + 1)
            => /\ \A b \in Buildings : placed_buildings'[Len(placed_buildings')].uid > b.uid
               /\ DistinctUids(placed_buildings) => DistinctUids(placed_buildings')
       /\ \A cell \in SmallCells :
            RightClickBuilding(cell[1], cell[2])
            => (DistinctUids(placed_buildings) => DistinctUids(placed_buildings'))
       /\ \A data \in StrategyFiles :
            ImportBuildings(data)
            => /\ DistinctUids(data.buildings) => DistinctUids(placed_buildings')
               /\ Len(data.buildings) > 0
                    => next_uid' = SetMax(UidsOf(data.buildings)) + 1
      ]_vars

\* two buildings with distinct uids, one imported and one placed after it
C4_Witness ==
    /\ Len(placed_buildings) = 2
    /\ placed_buildings[1].uid < BaseUid
    /\ placed_buildings[2].uid = placed_buildings[1].uid + 1
    /\ next_uid = placed_buildings[2].uid + 1

-----------------------------------------------------------------------------
\* candidate footprints on the small grid, in and out of bounds
Candidates ==
    {<<r, c, w, h, ty>> \in
        (0..(SmallShape[1] - 1)) \X (0..(SmallShape[2] - 1)) \X (1..2) \X (1..2)
        \X BuildingType : TRUE}

\* b is created at or before the cursor time and not demolished by it
ActiveAtCursor(b) ==
    /\ CreateTime(b) <= CursorTime
    /\ CursorTime < get_building_demolish_time(b.uid)

(* C5: when the terrain checks pass, can_place_building rejects a candidate
   footprint exactly when some placed building of the same category shares a
   cell with it and is active at the cursor time; buildings of another
   category, not yet created or already demolished never cause rejection. *)
C5_RejectsIffSameCategoryActiveOverlap ==
    \A cand \in Candidates :
        LET r == cand[1]  c == cand[2]  w == cand[3]  h == cand[4]  ty == cand[5]
        IN  TerrainAllows(r, c, w, h, ty) =>
              (~can_place_building(r, c, w, h, ty)
                 <=> \E b \in Buildings :
                        /\ b.b_type = ty
                        /\ CellsOf(b) \cap RectCells(c, r, w, h) # {}
                        /\ ActiveAtCursor(b))

\* an active Floor building rejects a Floor candidate on its own footprint
\* while a Wall candidate with the identical footprint is placeable
C5_Witness ==
    \E b \in Buildings :
        /\ b.b_type = "Floor"
        /\ ActiveAtCursor(b)
        /\ TerrainAllows(b.grid_y, b.grid_x, b.width, b.height, "Floor")
        /\ ~can_place_building(b.grid_y, b.grid_x, b.width, b.height, "Floor")
        /\ can_place_building(b.grid_y, b.grid_x, b.width, b.height, "Wall")

-----------------------------------------------------------------------------
(* C6: for a building with a demolish event later than its creation, the
   activity test is true at exactly the times t with creation <= t <
   demolish time, so false at the demolish time itself; for a building with
   no demolish event it is true at exactly the times t >= creation. *)
C6_HalfOpenInterval ==
    \A b \in Buildings :
        /\ \A e \in Events :
             (e.uid = b.uid /\ EventTime(e) > CreateTime(b)) =>
                /\ \A t \in AllTimes :
                     ActiveAt(b, t) <=> (CreateTime(b) <= t /\ t < EventTime(e))
                /\ ~ActiveAt(b, EventTime(e))
        /\ (~\E e \in Events : e.uid = b.uid) =>
             \A t \in AllTimes : ActiveAt(b, t) <=> (CreateTime(b) <= t)

\* the cursor stands exactly at the demolish time of a building that was
\* created earlier, and another building has no demolish event
C6_Witness ==
    /\ \E b \in Buildings : \E e \in Events :
          /\ e.uid = b.uid
          /\ CreateTime(b) < EventTime(e)
          /\ CursorTime = EventTime(e)
    /\ \E b \in Buildings : ~\E e \in Events : e.uid = b.uid

-----------------------------------------------------------------------------
\* whether the building at index i covers (px, py) and is active at the cursor
HitAt(i, px, py) ==
    Covers(placed_buildings[i], px, py) /\ ActiveAtCursor(placed_buildings[i])

\* the building a Demolish-mode click on (px, py) targets, as a set of 0 or 1
TargetAt(px, py) ==
    {placed_buildings[i] : i \in
        {k \in 1..Len(placed_buildings) :
            HitAt(k, px, py) /\ \A j \in 1..(k - 1) : ~HitAt(j, px, py)}}

(* C9: without imports demolish_events never holds two events with the same
   uid; a Demolish-mode left click on a targeted building that already has a
   demolish event changes nothing, and otherwise appends exactly one event
   with that building's uid, name, origin, footprint and the cursor's
   (wave, is_late). *)
C9_NoDuplicateDemolish ==
    /\ [](\A i, j \in 1..Len(demolish_events) :
             i # j => demolish_events[i].uid # demolish_events[j].uid)
    /\ [][\A cell \in SmallCells :
            (placed_buildings' = placed_buildings
               /\ LeftClickDemolish(cell[1], cell[2])) =>
              \A b \in TargetAt(cell[1], cell[2]) :
                 IF \E e \in Events : e.uid = b.uid
                 THEN UNCHANGED vars
                 ELSE /\ Len(demolish_events') = Len(demolish_events) + 1
                      /\ SubSeq(demolish_events', 1, Len(demolish_events)) = demolish_events
                      /\ LET e == demolish_events'[Len(demolish_events')]
                         IN  /\ e.uid = b.uid /\ e.name = b.template_name
                             /\ e.grid_x = b.grid_x /\ e.grid_y = b.grid_y
                             /\ e.width = b.width /\ e.height = b.height
                             /\ e.wave_num = current_wave_num
                             /\ e.is_late = current_is_late
         ]_vars

\* two buildings each have their one demolish event, and the cursor is at a
\* time where a building that has its event is still a target
C9_Witness ==
    /\ Len(demolish_events) = 2
    /\ \E cell \in SmallCells : \E b \in TargetAt(cell[1], cell[2]) :
          \E e \in Events : e.uid = b.uid

-----------------------------------------------------------------------------
\* the time values of the demolish events that carry uid
EventTimesOf(uid) == {EventTime(demolish_events[i]) : i \in EventsOf(uid)}

(* C10 as stated: when several demolish events carry one uid,
   get_building_demolish_time returns the minimum of their time values. *)
C10_ReturnsMinimumTime ==
    \A b \in Buildings :
        Cardinality(EventsOf(b.uid)) > 1 =>
            get_building_demolish_time(b.uid) = SetMin(EventTimesOf(b.uid))

(* C10 amended: when several demolish events carry one uid,
   get_building_demolish_time returns the time value of the one that comes
   first in the list, whatever the time values of the others. *)
C10_ReturnsFirstInList ==
    \A b \in Buildings :
        Cardinality(EventsOf(b.uid)) > 1 =>
            \E i \in EventsOf(b.uid) :
                /\ \A j \in EventsOf(b.uid) : i <= j
                /\ get_building_demolish_time(b.uid) = EventTime(demolish_events[i])

\* a building has two demolish events and the first in the list is the later
C10_Witness ==
    \E b \in Buildings :
        /\ Cardinality(EventsOf(b.uid)) > 1
        /\ get_building_demolish_time(b.uid) > SetMin(EventTimesOf(b.uid))

-----------------------------------------------------------------------------
(* C7 as stated: get_time_value is injective on (wave, late) pairs and
   orders them: it strictly increases with wave, and at a fixed wave the
   late phase lies strictly between the early phase and the early phase of
   wave + 1. *)
C7_InjectiveAndOrdered ==
    probe.op = "get_time_value" =>
        LET wa == probe.wave_a  la == probe.late_a
            wb == probe.wave_b  lb == probe.late_b
            a == probe.out_a    b == probe.out_b
        IN  /\ ~a.panicked /\ ~b.panicked
            /\ (wa # wb \/ la # lb) => a.value # b.value
            /\ wa < wb => a.value < b.value
            /\ (wa = wb /\ ~la /\ lb) => a.value < b.value
            /\ (wa < I32Max /\ wb = wa + 1 /\ la /\ ~lb) => a.value < b.value

\* the waves whose doubled value fits in an i32
InTimeRange(wave) == -TwoPow30 <= wave /\ wave < TwoPow30

(* C7 amended: for waves with -2^30 <= wave < 2^30 get_time_value returns
   2*wave + (1 if late else 0), is injective on (wave, late) pairs and
   orders them: it strictly increases with wave, and at a fixed wave the
   late phase lies strictly between the early phase and the early phase of
   wave + 1. *)
C7_InjectiveAndOrderedInRange ==
    (probe.op = "get_time_value"
       /\ InTimeRange(probe.wave_a) /\ InTimeRange(probe.wave_b)) =>
        LET wa == probe.wave_a  la == probe.late_a
            wb == probe.wave_b  lb == probe.late_b
            a == probe.out_a    b == probe.out_b
        IN  /\ ~a.panicked /\ ~b.panicked
            /\ a.value = (2 * wa) + (IF la THEN 1 ELSE 0)
            /\ (wa # wb \/ la # lb) => a.value # b.value
            /\ wa < wb => a.value < b.value
            /\ (wa = wb /\ ~la /\ lb) => a.value < b.value
            /\ (wb = wa + 1 /\ la /\ ~lb) => a.value < b.value

\* the late phase of wave 1 and the early phase of wave 2 were compared
C7_Witness ==
    /\ probe.op = "get_time_value"
    /\ probe.wave_a = 1 /\ probe.late_a
    /\ probe.wave_b = 2 /\ ~probe.late_b
    /\ probe.out_a.value < probe.out_b.value

-----------------------------------------------------------------------------
FloorGrid == layers_data[current_major_z].floor_grid

FloorAllUnpainted ==
    \A r \in 1..grid_rows : \A c \in 1..grid_cols : FloorGrid[r][c] = -1

\* value 0 on the rows and columns 8..12, -1 everywhere else
FloorPaintedAroundCentre ==
    \A r \in 0..(grid_rows - 1) : \A c \in 0..(grid_cols - 1) :
        FloorGrid[r + 1][c + 1] =
            IF r >= 8 /\ r <= 12 /\ c >= 8 /\ c <= 12 THEN 0 ELSE -1

(* C8: on the 40 x 40 Floor grid, all -1, painting 0 with radius 2 at
   (10,10) makes a 2x2 Floor footprint placeable at (9,9); placing it makes
   a 2x2 Floor footprint at (10,10) not placeable at the same cursor; with a
   demolish event for the first building and the cursor at or after its
   time, the footprint at (10,10) is placeable. *)
C8_PaintPlaceDemolishScenario ==
    /\ [][(placed_buildings = << >> /\ FloorAllUnpainted
             /\ PaintStroke("Floor", 10, 10, 2, 0, TRUE))
          => (FloorPaintedAroundCentre
                /\ can_place_building(9, 9, 2, 2, "Floor"))'
         ]_vars
    /\ [][(placed_buildings = << >> /\ FloorPaintedAroundCentre
             /\ selected_building_idx \in ScenarioTemplates
             /\ LeftClickBuilding(9, 9))
          => (/\ Len(placed_buildings) = 1
              /\ placed_buildings[1].grid_x = 9 /\ placed_buildings[1].grid_y = 9
              /\ ~can_place_building(10, 10, 2, 2, "Floor"))'
         ]_vars
    /\ [](\A e \in Events :
            (/\ Len(placed_buildings) = 1
             /\ placed_buildings[1].grid_x = 9 /\ placed_buildings[1].grid_y = 9
             /\ e.uid = placed_buildings[1].uid
             /\ CursorTime >= EventTime(e)
             /\ FloorPaintedAroundCentre)
            => can_place_building(10, 10, 2, 2, "Floor"))

\* the first building stands at (9,9), its demolish is scheduled and the
\* cursor has moved past it
C8_Witness ==
    /\ grid_rows = DefaultGridSize /\ grid_cols = DefaultGridSize
    /\ FloorPaintedAroundCentre
    /\ Len(placed_buildings) = 1
    /\ placed_buildings[1].grid_x = 9 /\ placed_buildings[1].grid_y = 9
    /\ \E e \in Events :
          e.uid = placed_buildings[1].uid /\ CursorTime > EventTime(e)
    /\ can_place_building(10, 10, 2, 2, "Floor")

-----------------------------------------------------------------------------
(* C11: in every reachable state, the states after a successful terrain
   import whatever major_z values its layers carry (a file without layers
   included), layers_data has an entry for current_major_z. *)
C11_CurrentLayerPresent == current_major_z \in DOMAIN layers_data

-----------------------------------------------------------------------------
(* C12: in every reachable state, the states after a successful catalog
   import included (an empty catalog, or one shorter than the current one),
   building_templates is non-empty and selected_building_idx and
   selected_upgrade_target_idx are valid indices into it. *)
C12_SelectionsIndexCatalog ==
    /\ Len(building_templates) > 0
    /\ selected_building_idx < Len(building_templates)
    /\ selected_upgrade_target_idx < Len(building_templates)

-----------------------------------------------------------------------------
\* the files that were not picked, not read or not parsed
FailedFiles == {Cancelled, Unreadable, Unparsable}

(* C13: an import of a terrain, strategy or catalog file that cannot be
   read or does not parse changes no part of the editor state: layers, grid
   size, meta fields, placed buildings, event lists, next_uid and catalog
   stay as they were. *)
C13_FailedImportChangesNothing ==
    [][\A file \in FailedFiles :
          (\/ import_terrain(file)
           \/ import_buildings(file)
           \/ import_building_configs(file))
          => UNCHANGED editor
      ]_vars

\* a strategy file failed to parse in an editor with a painted floor, a
\* placed building and a demolish event
C13_Witness ==
    /\ probe.op = "import_buildings" /\ probe.status = "unparsable"
    /\ Running
    /\ \E r \in 1..grid_rows, c \in 1..grid_cols :
          layers_data[current_major_z].floor_grid[r][c] >= 0
    /\ Len(placed_buildings) > 0
    /\ Len(demolish_events) > 0

-----------------------------------------------------------------------------
\* grid has rows rows of cols cells each
HasShape(grid, rows, cols) ==
    /\ Len(grid) = rows
    /\ \A r \in 1..Len(grid) : Len(grid[r]) = cols

(* C14: after any sequence of paint strokes, changes of the row or column
   count and successful terrain imports (layers of the old format, layers of
   different sizes, rows of different lengths), each of the floor, wall and
   ceiling grids of every layer has exactly grid_rows rows of exactly
   grid_cols cells. *)
C14_GridsMatchGridSize ==
    \A z \in DOMAIN layers_data : \A b_type \in BuildingType :
        HasShape(get_grid(layers_data[z], b_type), grid_rows, grid_cols)

\* the file with rows of different lengths was imported: its short row and
\* its small wall grid have been filled up
C14_Witness ==
    /\ grid_rows = 2 /\ grid_cols = 2
    /\ Running
    /\ layers_data[current_major_z].floor_grid = << <<0, 1>>, <<2, -1>> >>
    /\ layers_data[current_major_z].wall_grid = << <<3, -1>>, <<-1, -1>> >>
    /\ layers_data[current_major_z].ceiling_grid = << <<-1, -1>>, <<-1, -1>> >>

-----------------------------------------------------------------------------
\* new is old cut or filled up to rows x cols: the cells of old inside the
\* new shape are kept, every other cell is -1
IsResizeOf(new, old, old_rows, old_cols, rows, cols) ==
    /\ HasShape(new, rows, cols)
    /\ \A r \in 1..rows : \A c \in 1..cols :
          new[r][c] = IF r <= old_rows /\ c <= old_cols THEN old[r][c] ELSE -1

\* the shapes a grid is resized to
TargetSizes == 0..3

(* C15: resize_grids from rows x cols to rows' x cols' leaves every cell
   (r, c) with r < min(rows, rows') and c < min(cols, cols') unchanged and
   sets every new cell to -1; growing keeps the original rectangle, and an
   empty grid becomes rows' x cols' cells of -1. *)
C15_ResizeKeepsCommonRectangle ==
    /\ [](\A z \in DOMAIN layers_data : \A b_type \in BuildingType :
            \A rows \in TargetSizes, cols \in TargetSizes :
               LET old == get_grid(layers_data[z], b_type)
               IN  IsResizeOf(get_grid(resize_grids(layers_data, rows, cols)[z], b_type),
                              old, grid_rows, grid_cols, rows, cols))
    /\ [][\A n \in GridSizes :
            (SetGridRows(n) \/ SetGridCols(n))
            => \A z \in DOMAIN layers_data : \A b_type \in BuildingType :
                  IsResizeOf(get_grid(layers_data'[z], b_type),
                             get_grid(layers_data[z], b_type),
                             grid_rows, grid_cols, grid_rows', grid_cols')
         ]_vars

\* no file was imported: the painted 1 x 2 floor grid was grown by a row
C15_Witness ==
    /\ meta = DefaultMeta
    /\ grid_rows = 2 /\ grid_cols = 2
    /\ layers_data[current_major_z].floor_grid = << <<0, 0>>, <<-1, -1>> >>

-----------------------------------------------------------------------------
(* C16: normalize on a layer with an empty floor grid and a legacy
   elevation_grid G leaves floor = G, wall and ceiling as they were and the
   legacy grid cleared; on a layer with a non-empty floor grid it leaves the
   three grids as they were; normalizing twice equals normalizing once. *)
C16_NormalizeMigratesLegacyGrid ==
    probe.op = "normalize" =>
        LET layer == probe.layer
            out == probe.out
        IN  /\ (Len(layer.floor_grid) = 0 /\ layer.elevation_grid.is_some)
                  => /\ out.floor_grid = layer.elevation_grid.value
                     /\ out.wall_grid = layer.wall_grid
                     /\ out.ceiling_grid = layer.ceiling_grid
                     /\ ~out.elevation_grid.is_some
            /\ Len(layer.floor_grid) > 0
                  => /\ out.floor_grid = layer.floor_grid
                     /\ out.wall_grid = layer.wall_grid
                     /\ out.ceiling_grid = layer.ceiling_grid
            /\ probe.again = out

\* a legacy grid was moved into an empty floor grid beside a wall grid
C16_Witness ==
    /\ probe.op = "normalize"
    /\ probe.layer.floor_grid = << >>
    /\ probe.layer.wall_grid = << <<2>> >>
    /\ probe.layer.elevation_grid = Some(<< <<0, 1>>, <<1, 0>> >>)
    /\ probe.out.floor_grid = << <<0, 1>>, <<1, 0>> >>
    /\ probe.out.wall_grid = << <<2>> >>
    /\ probe.out.elevation_grid = None

-----------------------------------------------------------------------------
\* the template under the Building-mode ghost
SelectedTemplate == building_templates[selected_building_idx + 1]

\* the click at origin (r, c) is accepted
Placeable(r, c) ==
    /\ r >= 0 /\ c >= 0
    /\ can_place_building(r, c, SelectedTemplate.width, SelectedTemplate.height,
                          SelectedTemplate.b_type)

(* C17: a Building-mode left click changes the scene only when
   can_place_building is true; it then appends exactly one PlacedBuilding
   with uid = next_uid, the selected template's name, category, width, height
   and colour and the cursor's wave and late flag, and increases next_uid by
   exactly 1. When can_place_building is false, placed_buildings, next_uid,
   both event lists and all terrain grids stay as they were. *)
C17_ClickPlacesExactlyOne ==
    [][\A cell \in ClickCells :
          LeftClickBuilding(cell[1], cell[2])
          => IF Placeable(cell[1], cell[2])
             THEN /\ placed_buildings' = Append(placed_buildings,
                        [uid |-> next_uid,
                         template_name |-> SelectedTemplate.name,
                         b_type |-> SelectedTemplate.b_type,
                         grid_x |-> cell[2], grid_y |-> cell[1],
                         width |-> SelectedTemplate.width,
                         height |-> SelectedTemplate.height,
                         color |-> SelectedTemplate.color,
                         wave_num |-> current_wave_num,
                         is_late |-> current_is_late])
                  /\ next_uid' = next_uid + 1
                  /\ UNCHANGED <<upgrade_events, demolish_events, layers_data>>
             ELSE UNCHANGED <<placed_buildings, next_uid, upgrade_events,
                              demolish_events, layers_data>>
      ]_vars

\* a Lamp placed at wave 2, late, stands beside a template of an imported
\* catalog placed after it
C17_Witness ==
    /\ Len(placed_buildings) = 2
    /\ placed_buildings[1] =
          [uid |-> BaseUid, template_name |-> "Lamp", b_type |-> "Wall",
           grid_x |-> 1, grid_y |-> 0, width |-> 1, height |-> 1,
           color |-> "GREEN", wave_num |-> 2, is_late |-> TRUE]
    /\ placed_buildings[2].uid = BaseUid + 1
    /\ placed_buildings[2].template_name = "Gate"
    /\ placed_buildings[2].color = "WHITE"
    /\ next_uid = BaseUid + 2

-----------------------------------------------------------------------------
\* indices of the placed buildings whose rectangle does not hold cell
IndicesOff(cell) ==
    {i \in 1..Len(placed_buildings) : cell \notin CellsOf(placed_buildings[i])}

(* C18: a right click in Building mode on cell (x, y) removes exactly the
   buildings whose rectangle contains the cell, of any category and whether
   active at the cursor or not, and keeps all others unchanged and in their
   order. *)
C18_EraseRemovesCoveringBuildings ==
    [][\A cell \in SmallCells :
          RightClickBuilding(cell[1], cell[2])
          => IsSubSeqAt(placed_buildings', placed_buildings, IndicesOff(cell))
      ]_vars

\* the building placed first was erased, and the Lamp placed after it, on
\* a cell the first one covered too, is now the first of the list; it is
\* not yet active at the cursor
C18_Witness ==
    /\ BaseUid \in epoch_uids
    /\ Len(placed_buildings) = 1
    /\ placed_buildings[1].uid = BaseUid + 1
    /\ placed_buildings[1].template_name = "Lamp"
    /\ placed_buildings[1].is_late
    /\ ~current_is_late

-----------------------------------------------------------------------------
\* footprints <<start_r, start_c, w, h>> with the origin on the grid or one
\* past it
Footprints ==
    (0..grid_rows) \X (0..grid_cols) \X (1..2) \X (1..2)

CanPlace(f, b_type) == can_place_building(f[1], f[2], f[3], f[4], b_type)

\* the current layer's grid of category b_type
CategoryGrid(b_type) == get_grid(layers_data[current_major_z], b_type)

(* C19: can_place_building returns true only if the footprint lies inside
   the grid, the grid of the building's category is non-empty, the origin
   cell's value is >= 0 and every cell of the footprint holds the value of
   the origin cell; only the grid of the building's own category is
   consulted: a change of the other grids never changes the result. *)
C19_PlaceableOnlyOnUniformTerrain ==
    /\ [](Running =>
            \A f \in Footprints, b_type \in BuildingType :
               CanPlace(f, b_type)
               => /\ f[1] + f[4] <= grid_rows /\ f[2] + f[3] <= grid_cols
                  /\ Len(CategoryGrid(b_type)) > 0
                  /\ CategoryGrid(b_type)[f[1] + 1][f[2] + 1] >= 0
                  /\ \A cell \in RectCells(f[2], f[1], f[3], f[4]) :
                        CategoryGrid(b_type)[cell[2] + 1][cell[1] + 1]
                            = CategoryGrid(b_type)[f[1] + 1][f[2] + 1])
    /\ [][\A b_type \in BuildingType :
            (/\ layers_data' # layers_data
             /\ Running /\ Running'
             /\ CategoryGrid(b_type)' = CategoryGrid(b_type)
             /\ UNCHANGED <<grid_rows, grid_cols, placed_buildings,
                            demolish_events, current_wave_num, current_is_late>>)
            => \A f \in Footprints : CanPlace(f, b_type)' = CanPlace(f, b_type)
         ]_vars

\* a 2 x 1 footprint is placeable on the painted Floor grid and not on the
\* Wall grid of the same layer
C19_Witness ==
    /\ Running
    /\ grid_rows = 1 /\ grid_cols = 2
    /\ can_place_building(0, 0, 2, 1, "Floor")
    /\ ~can_place_building(0, 0, 2, 1, "Wall")
    /\ CategoryGrid("Wall") = << <<-1, 0>> >>

-----------------------------------------------------------------------------
\* the strokes <<layer_type, r, c, radius, val>> of the terrain specification
Strokes ==
    TerrainLayers \X ((-1)..grid_rows) \X ((-1)..grid_cols) \X TerrainRadii
        \X (TerrainBrushes \cup {-1})

\* cell (r, c) of the grid lies in the square of stroke s
InSquare(s, r, c) ==
    /\ r >= s[2] - s[4] /\ r <= s[2] + s[4]
    /\ c >= s[3] - s[4] /\ c <= s[3] + s[4]

SquareMeetsGrid(s) ==
    \E r \in 0..(grid_rows - 1), c \in 0..(grid_cols - 1) : InSquare(s, r, c)

\* layers_data after stroke s
After(s) == StrokedLayers(s[1], s[2], s[3], s[4], s[5])

\* stroke s wrote its value into the in-bounds cells of its square and
\* nothing else
WroteSquare(s) ==
    LET after == After(s)
        grid == get_grid(after[current_major_z], s[1])
    IN  /\ \A r \in 0..(grid_rows - 1), c \in 0..(grid_cols - 1) :
              grid[r + 1][c + 1] = IF InSquare(s, r, c) THEN s[5]
                                   ELSE CategoryGrid(s[1])[r + 1][c + 1]
        /\ \A b_type \in BuildingType \ {s[1]} :
              get_grid(after[current_major_z], b_type) = CategoryGrid(b_type)
        /\ DOMAIN after = DOMAIN layers_data
        /\ \A z \in DOMAIN layers_data \ {current_major_z} : after[z] = layers_data[z]

\* a step that is a stroke leaves buildings and events as they are
StrokeKeepsScene ==
    [][\/ UNCHANGED <<placed_buildings, upgrade_events, demolish_events>>
       \/ ~\E s \in Strokes : PaintStroke(s[1], s[2], s[3], s[4], s[5], TRUE)
      ]_vars

(* C20 as stated: a stroke with centre cell (r, c), radius R and value v
   writes v into every in-bounds cell within Chebyshev distance R of the
   centre in the current layer's grid of the selected category whenever that
   square meets the grid, and leaves every other cell of that grid, the
   layer's other grids, all other layers and all buildings and events
   unchanged. *)
C20_StrokeWritesWhenSquareMeetsGrid ==
    /\ [](Running => \A s \in Strokes : SquareMeetsGrid(s) => WroteSquare(s))
    /\ StrokeKeepsScene

(* C20 amended: a stroke whose centre cell (r, c) lies inside the grid
   writes v into every in-bounds cell within Chebyshev distance R of the
   centre in the current layer's grid of the selected category and leaves
   every other cell of that grid, the layer's other grids, all other layers
   and all buildings and events unchanged; a stroke whose centre cell lies
   outside the grid writes nothing, also when its square meets the grid. *)
C20_StrokeWritesWhenCentreInGrid ==
    /\ [](Running =>
            \A s \in Strokes :
               IF s[2] >= 0 /\ s[2] < grid_rows /\ s[3] >= 0 /\ s[3] < grid_cols
               THEN WroteSquare(s)
               ELSE After(s) = layers_data)
    /\ StrokeKeepsScene

\* on the imported 2 x 2 grid a stroke of radius 1, clipped at the border,
\* has painted the Wall grid whole while the Floor grid kept the values of
\* the file and the loaded buildings and events stayed
C20_Witness ==
    /\ Running
    /\ Len(placed_buildings) > 0 /\ Len(demolish_events) > 0
    /\ grid_rows = 2 /\ grid_cols = 2
    /\ CategoryGrid("Floor") = << <<0, 1>>, <<2, -1>> >>
    /\ CategoryGrid("Wall") = << <<0, 0>>, <<0, 0>> >>

-----------------------------------------------------------------------------
\* the values a terrain cell holds: obstacle, flat ground, three platforms
CellValues == (-1)..3

(* C21: starting from the default layer and using only the editor's own
   operations (strokes with every selectable brush, secondary-button strokes,
   changes of the row and column count), every cell of every grid of every
   layer holds a value in -1..3. *)
C21_CellsHoldBrushValues ==
    \A z \in DOMAIN layers_data : \A b_type \in BuildingType :
        LET grid == get_grid(layers_data[z], b_type)
        IN  \A r \in 1..Len(grid) : \A c \in 1..Len(grid[r]) :
               grid[r][c] \in CellValues

\* the grid was widened to three columns, the highest platform and two
\* other brushes were painted and the secondary button set a cell back to -1
C21_Witness ==
    /\ grid_rows = 1 /\ grid_cols = 3
    /\ layers_data[current_major_z].floor_grid = << <<3, -1, 2>> >>
    /\ layers_data[current_major_z].ceiling_grid = << <<1, 0, -1>> >>

-----------------------------------------------------------------------------
\* b is among the buildings the hover info lists for cell
Listed(b, cell) ==
    \E i \in 1..Len(hovered_buildings(cell[1], cell[2])) :
        hovered_buildings(cell[1], cell[2])[i] = b

\* b is among the buildings a Demolish-mode pointer over cell looks at
Targetable(b, cell) ==
    \E i \in DemolishTargets(cell[1], cell[2]) : placed_buildings[i] = b

\* the collision loop of can_place_building rejects every footprint of b's
\* category that shares a cell with b, b's own footprint included
Blocks(b) ==
    \A f \in Candidates :
        (f[5] = b.b_type /\ CellsOf(b) \cap RectCells(f[2], f[1], f[3], f[4]) # {})
        => ~BuildingsAllow(f[1], f[2], f[3], f[4], f[5])

\* the placed buildings of b's category that are not b
Others(b) == {o \in Buildings : o # b /\ o.b_type = b.b_type}

\* the render pass, the Demolish-mode target and the collision loop each
\* apply the activity rule to b
RuleInRenderDemolishPlace(b) ==
    /\ alpha_mult(b) = 100 <=> ActiveAtCursor(b)
    /\ \A cell \in CellsOf(b) : Targetable(b, cell) <=> ActiveAtCursor(b)
    /\ ActiveAtCursor(b) => Blocks(b)
    /\ (~ActiveAtCursor(b) /\ \A o \in Others(b) : ~ActiveAtCursor(o))
          => BuildingsAllow(b.grid_y, b.grid_x, b.width, b.height, b.b_type)

\* the cells of the grid
GridCells == (0..(grid_cols - 1)) \X (0..(grid_rows - 1))

(* C22 as stated: for every placed building and every cursor time the four
   uses of the activity rule agree: the building is drawn at full opacity,
   is listed in the hover info for a covered cell, is a Demolish-mode target
   for a covered cell, and blocks an overlapping placement of its category,
   each exactly when creation time <= cursor time < demolition time. *)
C22_FourUsesAgree ==
    \A b \in Buildings :
        /\ RuleInRenderDemolishPlace(b)
        /\ \A cell \in CellsOf(b) : Listed(b, cell) <=> ActiveAtCursor(b)

(* C22 amended: for every placed building and every cursor time the
   building is drawn at full opacity, is a Demolish-mode target for a
   covered cell and blocks an overlapping placement of its category, each
   exactly when creation time <= cursor time < demolition time; it is listed
   in the hover info for a covered cell exactly when that holds and the cell
   lies inside the grid: for a cell outside the grid the hover info lists no
   building, while the Demolish-mode pointer still targets the building. *)
C22_FourUsesAgreeInsideGrid ==
    \A b \in Buildings :
        /\ RuleInRenderDemolishPlace(b)
        /\ \A cell \in CellsOf(b) :
              Listed(b, cell) <=> (ActiveAtCursor(b) /\ cell \in GridCells)

\* after the grid was narrowed to one column an active Tower covers a cell
\* inside and a cell outside the grid, and a second building has its
\* demolition time at the cursor
C22_Witness ==
    /\ grid_cols = 1
    /\ \E b \in Buildings :
          /\ alpha_mult(b) = 100
          /\ Listed(b, <<0, 0>>)
          /\ ~Listed(b, <<1, 0>>) /\ Targetable(b, <<1, 0>>)
    /\ \E b \in Buildings :
          /\ alpha_mult(b) = 5
          /\ get_building_demolish_time(b.uid) = CursorTime

-----------------------------------------------------------------------------
\* the status the render pass shows for b: full opacity for an active
\* building, 0.3 for a planned and 0.05 for a historical one
StatusShown(b) ==
    CASE alpha_mult(b) = 100 -> "active"
      [] alpha_mult(b) = 30 -> "planned"
      [] alpha_mult(b) = 5 -> "historical"

\* the status of a building created at t_create and demolished at
\* t_demolish when the cursor stands at t
StatusAt(t_create, t_demolish, t) ==
    IF t_create <= t /\ t < t_demolish THEN "active"
    ELSE IF t >= t_demolish THEN "historical" ELSE "planned"

\* the cursors the wave DragValue and the late checkbox are set to
Cursors == CursorWaves \X BOOLEAN

(* C23: changing the cursor (wave number or is_late), also to or past a
   building's demolition time, leaves placed_buildings, demolish_events,
   upgrade_events, next_uid and all terrain grids unchanged; the status of a
   building (planned, active, historical) is a function of the cursor time
   and the building's creation and demolition times alone, so moving the
   cursor back before the demolition time makes the building active again. *)
C23_CursorOnlyChangesStatus ==
    /\ [](\A b \in Buildings :
            StatusShown(b) = StatusAt(CreateTime(b),
                                      get_building_demolish_time(b.uid), CursorTime))
    /\ [][\A cur \in Cursors :
            (SetWave(cur[1]) \/ SetLate(cur[2]))
            => /\ UNCHANGED <<placed_buildings, demolish_events, upgrade_events,
                              next_uid, layers_data>>
               /\ \A b \in Buildings :
                     (CreateTime(b) <= CursorTime' /\ CursorTime' < get_building_demolish_time(b.uid))
                     => StatusShown(b)' = "active"
         ]_vars

\* a building is active although it has a demolish event: the event was
\* made with the cursor at its time, where the building was historical, and
\* the cursor was moved back since; a second building is still planned
C23_Witness ==
    /\ \E b \in Buildings :
          /\ StatusShown(b) = "active"
          /\ \E e \in Events : e.uid = b.uid /\ CursorTime < EventTime(e)
    /\ \E b \in Buildings : StatusShown(b) = "planned"

-----------------------------------------------------------------------------
\* the event an added upgrade carries: the selected target's name and the
\* cursor
ExpectedUpgrade ==
    [building_name |-> building_templates[selected_upgrade_target_idx + 1].name,
     wave_num |-> current_wave_num, is_late |-> current_is_late]

(* C24: adding an upgrade appends exactly one UpgradeEvent (name of the
   selected template, current wave, current is_late) to the end of
   upgrade_events, also when an identical event is already in the list, and
   leaves placed_buildings and demolish_events unchanged; the contents of
   upgrade_events never change the result of can_place_building or the
   active interval of any building. *)
C24_AddUpgradeAppendsOne ==
    /\ [](LET pushed == PushedUpgrade(upgrade_events)
          IN  /\ Len(pushed) = Len(upgrade_events) + 1
              /\ SubSeq(pushed, 1, Len(upgrade_events)) = upgrade_events
              /\ pushed[Len(pushed)] = ExpectedUpgrade)
    /\ [][upgrade_events' # upgrade_events =>
            /\ AddUpgrade =>
                 /\ upgrade_events' = upgrade_events \o << ExpectedUpgrade >>
                 /\ UNCHANGED <<placed_buildings, demolish_events>>
            /\ UNCHANGED <<layers_data, grid_rows, grid_cols, placed_buildings,
                           demolish_events, current_wave_num, current_is_late>> =>
                 /\ \A f \in Candidates :
                       can_place_building(f[1], f[2], f[3], f[4], f[5])'
                          = can_place_building(f[1], f[2], f[3], f[4], f[5])
                 /\ \A b \in Buildings : \A t \in AllTimes :
                       ActiveAt(b, t)' = ActiveAt(b, t)
         ]_vars

\* the list holds the same upgrade of Lamp twice, beside a loaded building
\* with its demolish events, on a painted floor where a Wall footprint is
\* placeable
C24_Witness ==
    /\ Len(upgrade_events) = 2
    /\ upgrade_events[1] = upgrade_events[2]
    /\ upgrade_events[2] = [building_name |-> "Lamp", wave_num |-> 1, is_late |-> TRUE]
    /\ Len(placed_buildings) = 1 /\ Len(demolish_events) = 2
    /\ can_place_building(0, 0, 1, 1, "Wall")

-----------------------------------------------------------------------------
(* C25: in the older snapshot (main.rs) the right-click erase in Building
   mode cascades as in the final one: after it removes a building with uid
   U no demolish event with uid U remains, and the demolish events of the
   buildings that are still placed are kept. *)
C25_MainEraseCascades ==
    [][\A cell \in SmallCells :
          main_RightClickBuilding(cell[1], cell[2]) =>
            /\ \A b \in Buildings :
                  Covers(b, cell[1], cell[2]) => ~\E e \in Events' : e.uid = b.uid
            /\ \A e \in Events :
                  e.uid \in UidsOf(placed_buildings') => e \in Events'
      ]_vars

-----------------------------------------------------------------------------
(* C26: with the editor's own operations only (no import), every demolish
   event has a time value greater than or equal to the creation time of the
   building it refers to: a Demolish-mode click targets only the first
   building in placed_buildings that covers the clicked cell and is active
   at the cursor; hence no building's demolition time precedes its creation
   time. *)
C26_DemolishNotBeforeCreation ==
    /\ [](\A b \in Buildings :
            /\ \A e \in Events : e.uid = b.uid => EventTime(e) >= CreateTime(b)
            /\ get_building_demolish_time(b.uid) >= CreateTime(b))
    /\ [][\A cell \in SmallCells :
            (LeftClickDemolish(cell[1], cell[2])
               /\ Len(demolish_events') = Len(demolish_events) + 1)
            => \E b \in TargetAt(cell[1], cell[2]) :
                  /\ demolish_events'[Len(demolish_events')].uid = b.uid
                  /\ EventTime(demolish_events'[Len(demolish_events')]) = CursorTime
                  /\ CursorTime >= CreateTime(b)
         ]_vars

\* a building made in the late half of the wave has its demolish event at
\* its creation time, and the cursor is back in the early half, where the
\* building is not yet created and no click can target it
C26_Witness ==
    /\ ~current_is_late
    /\ \E b \in Buildings :
          /\ b.is_late
          /\ \E e \in Events : e.uid = b.uid /\ EventTime(e) = CreateTime(b)
          /\ \A cell \in CellsOf(b) : TargetAt(cell[1], cell[2]) = {}

-----------------------------------------------------------------------------
\* every grid of every layer is grid_rows x grid_cols
GridsShaped ==
    \A z \in DOMAIN layers_data : \A b_type \in BuildingType :
        HasShape(get_grid(layers_data[z], b_type), grid_rows, grid_cols)

(* C27: provided every grid is grid_rows x grid_cols, can_place_building
   returns a boolean without indexing outside the grid for every origin with
   start_r >= 0 and start_c >= 0 (origins on or beyond the last row or
   column included) and for every template footprint a catalog file can
   supply, a width or height of 0 included. *)
C27_NeverIndexesOutsideGrid ==
    (Running /\ GridsShaped) =>
        \A i \in 1..Len(building_templates) : \A o \in GhostOrigins :
            ~can_place_panics(o[1], o[2], building_templates[i].width,
                              building_templates[i].height,
                              building_templates[i].b_type)

-----------------------------------------------------------------------------
\* a and b agree on the fields a strategy file keeps of a building
SameExportedFields(a, b) ==
    /\ a.uid = b.uid /\ a.template_name = b.template_name
    /\ a.b_type = b.b_type
    /\ a.grid_x = b.grid_x /\ a.grid_y = b.grid_y
    /\ a.width = b.width /\ a.height = b.height
    /\ a.wave_num = b.wave_num /\ a.is_late = b.is_late

(* C28: exporting the strategy and then importing the exported file
   restores placed_buildings (uid, name, category, origin, width, height,
   creation wave and is_late, in the same order), upgrade_events and
   demolish_events as they were at the export, and sets next_uid to the
   largest building uid plus 1 when there is a building. *)
C28_ExportImportRoundTrip ==
    [][(probe.op = "export_buildings" /\ import_buildings(Parsed(probe.file)))
       => /\ Len(placed_buildings') = Len(probe.scene.placed_buildings)
          /\ \A i \in 1..Len(probe.scene.placed_buildings) :
                SameExportedFields(placed_buildings'[i],
                                   probe.scene.placed_buildings[i])
          /\ upgrade_events' = probe.scene.upgrade_events
          /\ demolish_events' = probe.scene.demolish_events
          /\ Len(placed_buildings') > 0
                => next_uid' = SetMax(UidsOf(probe.scene.placed_buildings)) + 1
      ]_vars

\* two buildings were placed, the second was erased, the scene with its
\* upgrade and its demolish event was exported and the file imported again:
\* next_uid has gone back to the uid of the erased building
C28_Witness ==
    /\ probe.op = "import_buildings"
    /\ ever_max = BaseUid + 1
    /\ UidsOf(placed_buildings) = {BaseUid}
    /\ next_uid = BaseUid + 1
    /\ Len(upgrade_events) > 0 /\ Len(demolish_events) > 0
    /\ \E b \in Buildings : b.is_late

-----------------------------------------------------------------------------
(* C29: restricted to Floor buildings and a Floor candidate, with the older
   snapshot's single grid equal to the final snapshot's non-empty floor
   grid, can_place_building of main.rs returns the same result as
   can_place_building of app.rs for every origin, footprint of at least
   1 x 1, cursor, list of placed buildings and list of demolish events. *)
C29_SnapshotsAgreeOnFloor ==
    probe.op = "can_place_building" => probe.main = probe.app

\* both snapshots accept a 1 x 1 footprint beside an active building and
\* over one whose first demolish event lies before the cursor
C29_Witness ==
    /\ probe.op = "can_place_building"
    /\ probe.start_r = 1 /\ probe.start_c = 1 /\ probe.w = 1 /\ probe.h = 1
    /\ probe.main /\ probe.app
    /\ Len(placed_buildings) = 2
    /\ \E b \in Buildings :
          /\ Covers(b, 1, 1)
          /\ get_building_demolish_time(b.uid) <= CursorTime
    /\ \E b \in Buildings : ~Covers(b, 1, 1) /\ ActiveAtCursor(b)

-----------------------------------------------------------------------------
\* a building made at (wave, late) whose uid has no demolish event
Undemolished(wave, late) == [uid |-> BaseUid, wave_num |-> wave, is_late |-> late]

(* C30 as stated: the "never" sentinel get_building_demolish_time returns
   for a uid without a demolish event is strictly greater than
   get_time_value(wave, late) for every (wave, late) whose time value is
   representable as a 32-bit signed integer, so a building without a
   demolish event is active at every representable time at or after its
   creation. *)
C30_SentinelAboveEveryTime ==
    (probe.op = "get_time_value" /\ EventsOf(BaseUid) = {}
       /\ InTimeRange(probe.wave_a) /\ InTimeRange(probe.wave_b)) =>
        /\ get_building_demolish_time(BaseUid) > probe.out_a.value
        /\ probe.out_b.value >= probe.out_a.value
              => ActiveAt(Undemolished(probe.wave_a, probe.late_a), probe.out_b.value)

(* C30 amended: the sentinel is the maximum 32-bit signed integer, which is
   itself a representable time value: get_time_value(2^30 - 1, late) equals
   it. The sentinel is strictly greater than get_time_value(wave, late) for
   every other (wave, late) whose time value is representable, so a
   building without a demolish event is active at every representable time
   at or after its creation except the time 2^31 - 1, at which no building
   is active. *)
C30_SentinelAboveTimesBelowMax ==
    (probe.op = "get_time_value" /\ EventsOf(BaseUid) = {}
       /\ InTimeRange(probe.wave_a) /\ InTimeRange(probe.wave_b)) =>
        /\ get_building_demolish_time(BaseUid) = I32Max
        /\ probe.out_a.value <= get_building_demolish_time(BaseUid)
        /\ probe.out_a.value = get_building_demolish_time(BaseUid)
              <=> (probe.wave_a = TwoPow30 - 1 /\ probe.late_a)
        /\ probe.out_b.value >= probe.out_a.value
              => (ActiveAt(Undemolished(probe.wave_a, probe.late_a), probe.out_b.value)
                    <=> probe.out_b.value < I32Max)

\* a building made at wave 1 is active at its creation and is not active at
\* the late half of wave 2^30 - 1, whose time value is the sentinel
C30_Witness ==
    /\ probe.op = "get_time_value"
    /\ probe.wave_a = 1 /\ ~probe.late_a
    /\ probe.wave_b = TwoPow30 - 1 /\ probe.late_b
    /\ ~probe.out_b.panicked
    /\ probe.out_b.value = get_building_demolish_time(BaseUid)
    /\ ActiveAt(Undemolished(1, FALSE), probe.out_a.value)
    /\ ~ActiveAt(Undemolished(1, FALSE), probe.out_b.value)

====
